---- MODULE Spec2Model ----
(***************************************************************************)
(* Model of the patent search backend (backend/sqlite_search_engine.py,    *)
(* backend/parser.py, backend/app.py).                                     *)
(*                                                                         *)
(* Text is a sequence of one-character strings, so that lower(), split(),  *)
(* str.count(), LIKE and the FTS5 tokenizer are computed character by      *)
(* character.  Scores are kept in tenths (9.0 is 90) so that the weights   *)
(* 3.0, 2.0, 1.5, 1.0 and the boost 1.2 stay integers.                     *)
(***************************************************************************)
EXTENDS Integers, Sequences, FiniteSets, TLC

(***************************************************************************)
(* Characters and strings                                                  *)
(***************************************************************************)
LowerCase == << "a","b","c","d","e","f","g","h","i","j","k","l","m",
                "n","o","p","q","r","s","t","u","v","w","x","y","z" >>

UpperCase == << "A","B","C","D","E","F","G","H","I","J","K","L","M",
                "N","O","P","Q","R","S","T","U","V","W","X","Y","Z" >>

Digits == << "0","1","2","3","4","5","6","7","8","9" >>

\* The characters of the model in ASCII order (SQLite compares TEXT bytewise).
AsciiOrder == << " ", "!", "%", "-", ".", "/" >> \o Digits \o UpperCase
              \o << "_" >> \o LowerCase

Range(s) == { s[i] : i \in DOMAIN s }

Ord(c) == CHOOSE i \in DOMAIN AsciiOrder : AsciiOrder[i] = c

\* str.lower() on one character
LowerChar(c) ==
    IF \E i \in DOMAIN UpperCase : UpperCase[i] = c
    THEN LowerCase[CHOOSE i \in DOMAIN UpperCase : UpperCase[i] = c]
    ELSE c

\* str.lower()
Lower(s) == [ i \in DOMAIN s |-> LowerChar(s[i]) ]

IsAlnum(c) == c \in Range(LowerCase) \cup Range(UpperCase) \cup Range(Digits)

\* the regex class \w
IsWordChar(c) == IsAlnum(c) \/ c = "_"

\* the regex class \s
IsSpace(c) == c \in { " ", "\t", "\n" }

\* The maximal runs of the characters of s marked in keep, in order.
RECURSIVE RunsAcc(_, _, _, _, _)
RunsAcc(s, keep, i, cur, acc) ==
    IF i > Len(s)
    THEN IF cur = << >> THEN acc ELSE Append(acc, cur)
    ELSE IF keep[i]
         THEN RunsAcc(s, keep, i + 1, Append(cur, s[i]), acc)
         ELSE RunsAcc(s, keep, i + 1, << >>,
                      IF cur = << >> THEN acc ELSE Append(acc, cur))

\* str.split(): the whitespace-separated words of s
Split(s) == RunsAcc(s, [ i \in DOMAIN s |-> ~IsSpace(s[i]) ], 1, << >>, << >>)

\* s[i .. i+Len(t)-1] = t
MatchAt(s, i, t) ==
    /\ i + Len(t) - 1 <= Len(s)
    /\ \A j \in 1..Len(t) : s[i + j - 1] = t[j]

\* str.count(t): the non-overlapping occurrences of t in s, scanned from the
\* left (t is never empty: it is a word of split()).
RECURSIVE CountFrom(_, _, _)
CountFrom(s, t, i) ==
    IF i + Len(t) - 1 > Len(s) THEN 0
    ELSE IF MatchAt(s, i, t) THEN 1 + CountFrom(s, t, i + Len(t))
         ELSE CountFrom(s, t, i + 1)

Count(s, t) == CountFrom(s, t, 1)

\* t is a prefix of s
IsPrefix(t, s) == Len(t) <= Len(s) /\ MatchAt(s, 1, t)

\* s <= t in SQLite's BINARY collation
RECURSIVE LexLeqFrom(_, _, _)
LexLeqFrom(s, t, i) ==
    IF i > Len(s) THEN TRUE
    ELSE IF i > Len(t) THEN FALSE
    ELSE IF s[i] = t[i] THEN LexLeqFrom(s, t, i + 1)
    ELSE Ord(s[i]) < Ord(t[i])

LexLeq(s, t) == LexLeqFrom(s, t, 1)

\* SQLite's LIKE: % is any run, _ is any one character, ASCII letters match
\* without regard to case.
RECURSIVE LikeFrom(_, _, _, _)
LikeFrom(pat, s, i, j) ==
    IF i > Len(pat) THEN j > Len(s)
    ELSE IF pat[i] = "%"
         THEN \E k \in j..(Len(s) + 1) : LikeFrom(pat, s, i + 1, k)
    ELSE IF j > Len(s) THEN FALSE
    ELSE IF pat[i] = "_" THEN LikeFrom(pat, s, i + 1, j + 1)
    ELSE /\ LowerChar(pat[i]) = LowerChar(s[j])
         /\ LikeFrom(pat, s, i + 1, j + 1)

Like(pat, s) == LikeFrom(pat, s, 1, 1)

(***************************************************************************)
(* The texts the model draws its inputs from, written out as characters.   *)
(***************************************************************************)
Sp == << " " >>

w_network == << "n", "e", "t", "w", "o", "r", "k" >>
w_switching == << "s", "w", "i", "t", "c", "h", "i", "n", "g" >>
w_fabric == << "f", "a", "b", "r", "i", "c" >>
w_signal == << "s", "i", "g", "n", "a", "l" >>
w_router == << "r", "o", "u", "t", "e", "r" >>
w_routers == << "r", "o", "u", "t", "e", "r", "s" >>
w_of == << "o", "f" >>
w_a == << "a" >>
w_learning == << "l", "e", "a", "r", "n", "i", "n", "g" >>
w_machine == << "m", "a", "c", "h", "i", "n", "e" >>
w_optical == << "o", "p", "t", "i", "c", "a", "l" >>
w_fibre == << "f", "i", "b", "r", "e" >>
w_links == << "l", "i", "n", "k", "s" >>
w_here == << "h", "e", "r", "e" >>
w_short == << "s", "h", "o", "r", "t" >>
w_hub == << "h", "u", "b" >>
w_other == << "o", "t", "h", "e", "r" >>
w_title == << "t", "i", "t", "l", "e" >>
w_second == << "s", "e", "c", "o", "n", "d" >>
w_copy == << "c", "o", "p", "y" >>
w_physics == << "p", "h", "y", "s", "i", "c", "s" >>
w_telecommunications == << "t", "e", "l", "e", "c", "o", "m", "m", "u", "n", "i", "c", "a", "t", "i", "o", "n", "s" >>
w_google == << "g", "o", "o", "g", "l", "e" >>
w_neural == << "n", "e", "u", "r", "a", "l" >>
w_engine == << "e", "n", "g", "i", "n", "e" >>
w_net == << "n", "e", "t" >>
w_work == << "w", "o", "r", "k" >>
w_Neural == << "N", "e", "u", "r", "a", "l" >>
w_Network == << "N", "e", "t", "w", "o", "r", "k" >>
w_NETWORK == << "N", "E", "T", "W", "O", "R", "K" >>
w_AI == << "A", "I" >>
w_IBM == << "I", "B", "M" >>
w_Acme == << "A", "c", "m", "e" >>
w_Google == << "G", "o", "o", "g", "l", "e" >>
w_artificial_intelligence == << "a", "r", "t", "i", "f", "i", "c", "i", "a", "l", "_", "i", "n", "t", "e", "l", "l", "i", "g", "e", "n", "c", "e" >>
w_intelligence == << "i", "n", "t", "e", "l", "l", "i", "g", "e", "n", "c", "e" >>
id_P1 == << "P", "1" >>
id_P2 == << "P", "2" >>
id_P3 == << "P", "3" >>
id_P4 == << "P", "4" >>
id_P5 == << "P", "5" >>
d_2022_01_01 == << "2", "0", "2", "2", "-", "0", "1", "-", "0", "1" >>
d_2023_01_01 == << "2", "0", "2", "3", "-", "0", "1", "-", "0", "1" >>
d_2023_06_15 == << "2", "0", "2", "3", "-", "0", "6", "-", "1", "5" >>
d_2023_12_31 == << "2", "0", "2", "3", "-", "1", "2", "-", "3", "1" >>
c_G06F == << "G", "0", "6", "F" >>
c_H04L == << "H", "0", "4", "L" >>
w_Ada == << "A", "d", "a" >>
w_Lovelace == << "L", "o", "v", "e", "l", "a", "c", "e" >>
w_patent_ == << "p", "a", "t", "e", "n", "t", "_" >>
w_net_work == << "n", "e", "t", "-", "w", "o", "r", "k" >>
w_bangs == << "!", "!", "!" >>
w_underscore == << "_" >>
w_o_g == << "o", "_", "g" >>

\* The words ws joined by single spaces.
RECURSIVE Join(_)
Join(ws) ==
    IF ws = << >> THEN << >>
    ELSE IF Len(ws) = 1 THEN ws[1]
    ELSE ws[1] \o Sp \o Join(Tail(ws))

\* str(n) for a natural number n
RECURSIVE Decimal(_)
Decimal(n) ==
    IF n < 10 THEN << Digits[n + 1] >>
    ELSE Decimal(n \div 10) \o << Digits[(n % 10) + 1] >>

(***************************************************************************)
(* Bounds and program constants                                            *)
(***************************************************************************)
\* index_patents calls in one behaviour
MaxRebuilds == 2

\* "if (i + 1) % 100 == 0: conn.commit()"
CommitEvery == 100

\* "LIMIT 10" of the top_assignees and ipc_classes aggregations
TopLimit == 10

\* the validator's bounds on title and abstract
MinTitle == 5

MinAbstract == 10

(***************************************************************************)
(* The records a rebuild may be given.  A record is named by a key; the    *)
(* stored table and the index hold keys, and Rec gives the column values.  *)
(* has_id = FALSE is a record whose JSON object has no "id" member.        *)
(***************************************************************************)
Keys == { "net3", "abs1", "ai", "opt", "short", "noid", "dup" }

BlankRec ==
    [ has_id |-> TRUE, id |-> << >>, title |-> << >>, abstract |-> << >>,
      description |-> << >>, claims |-> << >>, assignee |-> << >>,
      inventors |-> << >>, application_date |-> << >>,
      publication_date |-> << >>, ipc_class |-> << >>, category |-> << >> ]

\* "network" three times in the title
RecNet3 ==
    [ BlankRec EXCEPT
        !.id = id_P1,
        !.title = Join(<< w_network, w_network, w_network >>),
        !.abstract = Join(<< w_switching, w_fabric >>),
        !.assignee = w_IBM,
        !.inventors = << Join(<< w_Ada, w_Lovelace >>) >>,
        !.publication_date = d_2023_06_15,
        !.ipc_class = c_G06F,
        !.category = w_physics ]

\* "network" once in the abstract
RecAbs1 ==
    [ BlankRec EXCEPT
        !.id = id_P2,
        !.title = Join(<< w_signal, w_router >>),
        !.abstract = Join(<< w_a, w_network, w_of, w_routers >>),
        !.assignee = w_Acme,
        !.publication_date = d_2022_01_01,
        !.ipc_class = c_H04L,
        !.category = w_physics ]

\* a boosted category; "Network" once in the title
RecAI ==
    [ BlankRec EXCEPT
        !.id = id_P3,
        !.title = Join(<< w_Neural, w_Network, w_engine >>),
        !.abstract = Join(<< w_learning, w_machine >>),
        !.assignee = w_Google,
        !.publication_date = d_2023_01_01,
        !.ipc_class = c_G06F,
        !.category = w_artificial_intelligence ]

\* not boosted; "network" once in the title
RecOpt ==
    [ BlankRec EXCEPT
        !.id = id_P4,
        !.title = Join(<< w_optical, w_network >>),
        !.abstract = Join(<< w_fibre, w_links, w_here >>),
        !.assignee = w_Google,
        !.publication_date = d_2023_12_31,
        !.ipc_class = c_H04L,
        !.category = w_physics ]

\* a title of 2 and an abstract of 5 characters
RecShort ==
    [ BlankRec EXCEPT
        !.id = id_P5,
        !.title = w_AI,
        !.abstract = w_short ]

\* no "id" member; the term in abstract, claims and description
RecNoId ==
    [ BlankRec EXCEPT
        !.has_id = FALSE,
        !.title = Join(<< w_router, w_hub >>),
        !.abstract = Join(<< w_network, w_hub >>),
        !.claims = Join(<< w_a, w_network >>),
        !.description = Join(<< w_network, w_of, w_routers >>),
        !.ipc_class = c_H04L,
        !.category = w_telecommunications ]

\* the id of RecNet3 again, with other content
RecDup ==
    [ BlankRec EXCEPT
        !.id = id_P1,
        !.title = Join(<< w_other, w_title >>),
        !.abstract = Join(<< w_second, w_copy >>),
        !.category = w_physics ]

Rec(k) ==
    CASE k = "net3"  -> RecNet3
      [] k = "abs1"  -> RecAbs1
      [] k = "ai"    -> RecAI
      [] k = "opt"   -> RecOpt
      [] k = "short" -> RecShort
      [] k = "noid"  -> RecNoId
      [] k = "dup"   -> RecDup

\* The validator at the end of extract_patent_data_robust
ValidRecord(k) ==
    ~(Len(Rec(k).title) < MinTitle \/ Len(Rec(k).abstract) < MinAbstract)

\* extract_from_root: the candidates that the validator returns and that
\* have a title and an abstract, in order.
RECURSIVE ParserOutput(_)
ParserOutput(cands) ==
    IF cands = << >> THEN << >>
    ELSE IF /\ ValidRecord(Head(cands))
            /\ Rec(Head(cands)).title # << >>
            /\ Rec(Head(cands)).abstract # << >>
         THEN << Head(cands) >> \o ParserOutput(Tail(cands))
         ELSE ParserOutput(Tail(cands))

\* Lists of candidate records.
Batches ==
    { << >>,
      << "net3", "abs1", "ai", "opt" >>,
      << "short", "net3", "dup" >>,
      << "noid", "abs1", "noid" >> }

\* What index_patents is called with: a list loaded from a JSON file as it
\* is (load_data_sqlite), or the list the parser made of the candidates.
Inputs == Batches \cup { ParserOutput(c) : c \in Batches }

\* The threads that call index_patents; each has its own connection.
Workers == { "w1", "w2" }

(***************************************************************************)
(* The database file: the patents table and the FTS5 index patents_fts.    *)
(*   patents  the rows in rowid order; a row is its id and its record.     *)
(*            Rows are only ever deleted all at once, and a new row gets   *)
(*            rowid max+1, so the rowids are 1..Len(patents).              *)
(*   fts      the documents of the index in FTS rowid order.  patents_fts  *)
(*            is an external-content table filled by the insert trigger,   *)
(*            which passes no rowid: FTS5 numbers the documents itself,    *)
(*            1, 2, 3, ...  There is no delete trigger.                    *)
(***************************************************************************)
EmptyDb == [ patents |-> << >>, fts |-> << >> ]

\* the rows of patents
Rows(d) == { d.patents[r] : r \in DOMAIN d.patents }

\* patent.get('id', f'patent_{i}')
ResolveId(k, i) ==
    IF Rec(k).has_id THEN Rec(k).id ELSE w_patent_ \o Decimal(i)

PatentRow(k, i) == [ id |-> ResolveId(k, i), key |-> k ]

\* the value of column c of a row of patents
Col(row, c) == IF c = "id" THEN row.id ELSE Rec(row.key)[c]

\* Faulty variant of DeleteAll: the DELETE removes nothing.
DeleteNothing(d) == d

\* DELETE FROM patents
DeleteAll(d) == [ d EXCEPT !.patents = << >> ]

\* Faulty variant of IdTaken: no PRIMARY KEY constraint on id.
IdNeverTaken(d, id) == FALSE

\* id TEXT PRIMARY KEY: the insert of a second row with an id fails
IdTaken(d, id) == \E r \in DOMAIN d.patents : d.patents[r].id = id

\* The trigger patents_fts_insert: one more document in the index.
FtsInsertTrigger(f, k) == Append(f, k)

\* INSERT INTO patents ...: the database after record k, the i-th of the
\* list (from 0), was inserted into d.
InsertPatent(d, k, i) ==
    [ patents |-> Append(d.patents, PatentRow(k, i)),
      fts     |-> FtsInsertTrigger(d.fts, k) ]

\* The loop of index_patents from record i on, run on d with no other
\* connection writing.
RECURSIVE InsertAll(_, _, _)
InsertAll(d, b, i) ==
    IF i >= Len(b) THEN d
    ELSE InsertAll(IF IdTaken(d, ResolveId(b[i + 1], i)) THEN d
                   ELSE InsertPatent(d, b[i + 1], i),
                   b, i + 1)

\* The rows index_patents(b) leaves stored when it runs alone.
RebuildAlone(b) == Rows(InsertAll(EmptyDb, b, 0))

(***************************************************************************)
(* get_aggregations: five SELECT statements over patents.                  *)
(***************************************************************************)
\* The groups of g with the n largest counts (all of them when there are at
\* most n; which of several equal counts is cut is not fixed by the query).
TopN(g, n) ==
    IF Cardinality(DOMAIN g) <= n THEN g
    ELSE LET keep == CHOOSE S \in SUBSET (DOMAIN g) :
                        /\ Cardinality(S) = n
                        /\ \A a \in S, b \in (DOMAIN g) \ S : g[a] >= g[b]
         IN  [ a \in keep |-> g[a] ]

\* SELECT c, COUNT(*) FROM patents [WHERE c != ''] GROUP BY c
GroupCount(d, c, skipEmpty) ==
    LET vals == { Col(d.patents[r], c) : r \in DOMAIN d.patents }
                \ (IF skipEmpty THEN { << >> } ELSE { })
    IN  [ v \in vals |->
            Cardinality({ r \in DOMAIN d.patents : Col(d.patents[r], c) = v }) ]

TopAssignees(d) == TopN(GroupCount(d, "assignee", TRUE), TopLimit)

Categories(d) == GroupCount(d, "category", FALSE)

IpcClasses(d) == TopN(GroupCount(d, "ipc_class", TRUE), TopLimit)

\* substr(publication_date, 1, 4) of the rows with length(publication_date) >= 4
ByYear(d) ==
    LET rows == { r \in DOMAIN d.patents :
                    Len(Col(d.patents[r], "publication_date")) >= 4 }
        year(r) == SubSeq(Col(d.patents[r], "publication_date"), 1, 4)
    IN  [ y \in { year(r) : r \in rows } |->
            Cardinality({ r \in rows : year(r) = y }) ]

\* SELECT COUNT(*) FROM patents
TotalPatents(d) == Len(d.patents)

NoAgg ==
    [ top_assignees |-> << >>, categories |-> << >>, ipc_classes |-> << >>,
      by_year |-> << >>, total_patents |-> -1 ]

(***************************************************************************)
(* search: the FTS5 query, the filters, the scan and the re-ranking        *)
(***************************************************************************)
\* re.sub(r'[^\w\s]', ' ', query).split(): the terms of the MATCH
\* expression, which is "t"* for one term, the terms joined by OR for
\* several, and the empty string for none.
prepare_fts_query(query) ==
    Split([ i \in DOMAIN query |->
              IF IsWordChar(query[i]) \/ IsSpace(query[i]) THEN query[i] ELSE " " ])

\* FTS5's unicode61 tokenizer: the runs of letters and digits, case folded.
Tokenize(text) ==
    RunsAcc(Lower(text), [ i \in DOMAIN text |-> IsAlnum(text[i]) ], 1, << >>, << >>)

\* json.dumps of a list of strings
RECURSIVE JsonItems(_)
JsonItems(names) ==
    IF names = << >> THEN << >>
    ELSE << "\"" >> \o names[1] \o << "\"" >>
         \o (IF Len(names) > 1 THEN << ",", " " >> ELSE << >>)
         \o JsonItems(Tail(names))

JsonDumps(names) == << "[" >> \o JsonItems(names) \o << "]" >>

\* The indexed columns of patents_fts (id is UNINDEXED).
FtsColumns ==
    { "title", "abstract", "description", "claims", "assignee", "inventors",
      "ipc_class", "category" }

\* The tokens of each indexed column of the document made of record k.
FtsDocument ==
    [ k \in Keys |->
        [ c \in FtsColumns |->
            Tokenize(IF c = "inventors" THEN JsonDumps(Rec(k).inventors)
                     ELSE Rec(k)[c]) ] ]

\* "t"*: the tokens of t as a phrase whose last token is a prefix.
PhraseMatches(tokens, phrase) ==
    /\ phrase # << >>
    /\ \E j \in 1..(Len(tokens) - Len(phrase) + 1) :
         /\ \A m \in 1..(Len(phrase) - 1) : tokens[j + m - 1] = phrase[m]
         /\ IsPrefix(phrase[Len(phrase)], tokens[j + Len(phrase) - 1])

\* patents_fts MATCH ?: some term matches some column of the document.
FtsMatch(k, terms) ==
    \E t \in DOMAIN terms, c \in FtsColumns :
        PhraseMatches(FtsDocument[k][c], Tokenize(terms[t]))

\* The WHERE conditions added for the filters that are supplied.
PassesFilters(row, req) ==
    /\ req.category # << >> => Col(row, "category") = req.category
    /\ req.assignee # << >> =>
         Like(<< "%" >> \o req.assignee \o << "%" >>, Col(row, "assignee"))
    /\ req.date_range # << >> =>
         /\ LexLeq(req.date_range[1], Col(row, "publication_date"))
         /\ LexLeq(Col(row, "publication_date"), req.date_range[2])

NoRequest ==
    [ query |-> << >>, limit |-> 0, category |-> << >>, assignee |-> << >>,
      date_range |-> << >> ]

\* The search calls the model makes.
Requests ==
    { [ NoRequest EXCEPT !.query = w_network, !.limit = 10 ],
      [ NoRequest EXCEPT !.query = w_NETWORK, !.limit = 2 ],
      [ NoRequest EXCEPT !.query = w_google, !.limit = 10 ],
      [ NoRequest EXCEPT !.query = Join(<< w_neural, w_network >>), !.limit = 10,
                         !.category = w_artificial_intelligence ],
      [ NoRequest EXCEPT !.query = w_network, !.limit = 10,
                         !.category = w_physics, !.assignee = w_google,
                         !.date_range = << d_2023_01_01, d_2023_12_31 >> ],
      [ NoRequest EXCEPT !.query = w_network, !.limit = 10,
                         !.assignee = w_underscore ],
      [ NoRequest EXCEPT !.query = w_net_work, !.limit = 10 ],
      [ NoRequest EXCEPT !.query = w_bangs, !.limit = 10 ] }

Queries == { req.query : req \in Requests }

\* The MATCH terms of each query and the records whose document matches
\* them, worked out once for the queries the model makes.
FtsTerms == [ q \in Queries |-> prepare_fts_query(q) ]

FtsHits == [ q \in Queries |-> { k \in Keys : FtsMatch(k, FtsTerms[q]) } ]

\* The FTS rowids of the documents that match.
Matching(d, query) == { r \in DOMAIN d.fts : d.fts[r] \in FtsHits[query] }

\* patents_fts is an external-content table: the columns of the document
\* with FTS rowid r are read from the row of patents with rowid r.
HasContent(d, r) == r \in DOMAIN d.patents

\* JOIN patents p ON patents_fts.id = p.id
JoinedRow(d, r) ==
    CHOOSE p \in Rows(d) : p.id = d.patents[r].id

\* Faulty variant of ScanOutcomes: the scan without LIMIT.
RECURSIVE ScanUnlimited(_, _, _, _)
ScanUnlimited(limit, fetched, V, X) ==
    IF V = { } /\ X = { }
    THEN { [ status |-> "ok", rows |-> fetched ] }
    ELSE (IF X # { } THEN { [ status |-> "error", rows |-> << >> ] } ELSE { })
         \cup UNION { ScanUnlimited(limit, Append(fetched, v), V \ { v }, X) :
                        v \in V }

\* ORDER BY rank LIMIT ?: the scan visits the matching documents in rank
\* order until `limit` rows have come out (a negative limit is no limit).
\* FTS5's rank is bm25, a function of the whole index that the model leaves
\* open: any order is possible.  V are the matches whose joined row passes
\* the filters, X the matches whose content row is missing: reading one
\* raises DatabaseError.  A match whose row fails the filters is passed
\* over and changes nothing.
RECURSIVE ScanOutcomes(_, _, _, _)
ScanOutcomes(limit, fetched, V, X) ==
    IF limit >= 0 /\ Len(fetched) >= limit
    THEN { [ status |-> "ok", rows |-> fetched ] }
    ELSE IF V = { } /\ X = { }
    THEN { [ status |-> "ok", rows |-> fetched ] }
    ELSE (IF X # { } THEN { [ status |-> "error", rows |-> << >> ] } ELSE { })
         \cup UNION { ScanOutcomes(limit, Append(fetched, v), V \ { v }, X) :
                        v \in V }

\* query.lower().split()
QueryTerms(query) == Split(Lower(query))

\* Faulty variant of FieldWeights: the weights of title and abstract
\* exchanged.
FieldWeightsSwapped ==
    << [ field |-> "title",       weight |-> 20 ],
       [ field |-> "abstract",    weight |-> 30 ],
       [ field |-> "claims",      weight |-> 15 ],
       [ field |-> "description", weight |-> 10 ] >>

\* field_weights, in tenths
FieldWeights ==
    << [ field |-> "title",       weight |-> 30 ],
       [ field |-> "abstract",    weight |-> 20 ],
       [ field |-> "claims",      weight |-> 15 ],
       [ field |-> "description", weight |-> 10 ] >>

BoostCategories == { w_artificial_intelligence, w_telecommunications }

\* for term in query_terms: tf = field_text.count(term); score += tf * weight
RECURSIVE TermLoop(_, _, _)
TermLoop(text, terms, weight) ==
    IF terms = << >> THEN 0
    ELSE (LET tf == Count(text, Head(terms))
          IN  IF tf > 0 THEN tf * weight ELSE 0)
         + TermLoop(text, Tail(terms), weight)

\* for field, weight in field_weights.items()
RECURSIVE FieldLoop(_, _, _)
FieldLoop(row, terms, fws) ==
    IF fws = << >> THEN 0
    ELSE (LET text == Lower(Col(row, Head(fws).field))
          IN  IF text # << >> THEN TermLoop(text, terms, Head(fws).weight)
              ELSE 0)
         + FieldLoop(row, terms, Tail(fws))

\* Faulty variant of Boost: no boost.
BoostNone(score) == score

\* score *= 1.2
Boost(score) == (score * 12) \div 10

\* The score when the loop over field_weights is done.
PreBoostScore(row, query) == FieldLoop(row, QueryTerms(query), FieldWeights)

calculate_custom_score(row, query) ==
    IF Col(row, "category") \in BoostCategories
    THEN Boost(PreBoostScore(row, query))
    ELSE PreBoostScore(row, query)

\* The score of each record for each query the model makes (the id is the
\* one column of a row that the record alone does not fix, and the score
\* does not read it).
Scores ==
    [ q \in Queries |->
        [ k \in Keys |-> calculate_custom_score(PatentRow(k, 0), q) ] ]

\* Faulty variant of InsertByScore: x goes before the entries of equal score.
InsertByScoreTiesFirst(sorted, x) ==
    LET p == Cardinality({ i \in DOMAIN sorted : sorted[i].score > x.score })
    IN  SubSeq(sorted, 1, p) \o << x >> \o SubSeq(sorted, p + 1, Len(sorted))

\* x put into the list sorted by falling score, after the entries whose
\* score is not smaller
InsertByScore(sorted, x) ==
    LET p == Cardinality({ i \in DOMAIN sorted : sorted[i].score >= x.score })
    IN  SubSeq(sorted, 1, p) \o << x >> \o SubSeq(sorted, p + 1, Len(sorted))

\* formatted_results.sort(key=lambda x: x['score'], reverse=True)
RECURSIVE SortByScore(_)
SortByScore(rows) ==
    IF rows = << >> THEN << >>
    ELSE InsertByScore(SortByScore(SubSeq(rows, 1, Len(rows) - 1)),
                       rows[Len(rows)])

NoSearch ==
    [ status |-> "none", req |-> NoRequest, fetched |-> << >>, results |-> << >> ]

\* What search(query, limit, category, assignee, date_range) can end in on
\* the database d: "error" is an exception (the empty MATCH expression is a
\* syntax error), "ok" the list returned.  fetched is cursor.fetchall().
search(d, req) ==
    LET terms == FtsTerms[req.query]
        M     == Matching(d, req.query)
        X     == { r \in M : ~HasContent(d, r) }
        V     == { r \in M \ X : PassesFilters(JoinedRow(d, r), req) }
        scans == IF terms = << >>
                 THEN { [ status |-> "error", rows |-> << >> ] }
                 ELSE ScanOutcomes(req.limit, << >>, V, X)
    IN  { [ status  |-> s.status,
            req     |-> req,
            fetched |-> [ i \in DOMAIN s.rows |-> JoinedRow(d, s.rows[i]) ],
            results |-> SortByScore(
                [ i \in DOMAIN s.rows |->
                    [ id    |-> JoinedRow(d, s.rows[i]).id,
                      key   |-> JoinedRow(d, s.rows[i]).key,
                      score |-> Scores[req.query][
                                    JoinedRow(d, s.rows[i]).key] ] ]) ] :
          s \in scans }

(***************************************************************************)
(* search_by_field and its route                                           *)
(***************************************************************************)
\* Faulty variant of valid_fields: title let through.
valid_fields_and_title == { "assignee", "category", "ipc_class", "inventors", "title" }

valid_fields == { "assignee", "category", "ipc_class", "inventors" }

\* the text stored in column c of a row (inventors is stored as JSON text)
ColumnText(row, c) ==
    IF c = "inventors" THEN JsonDumps(Rec(row.key).inventors) ELSE Col(row, c)

\* SELECT * FROM patents WHERE <field> LIKE ? LIMIT ?: the table is scanned
\* in rowid order and the scan stops after `limit` rows (a negative limit is
\* no limit).
RECURSIVE ScanLike(_, _, _, _, _)
ScanLike(d, field, pat, limit, r) ==
    IF r > Len(d.patents) \/ limit = 0 THEN << >>
    ELSE IF Like(pat, ColumnText(d.patents[r], field))
         THEN << d.patents[r] >> \o ScanLike(d, field, pat, limit - 1, r + 1)
         ELSE ScanLike(d, field, pat, limit, r + 1)

\* search_by_field(field, value, limit): "ValueError" when the field is not
\* one of valid_fields, else the rows found.
search_by_field(d, field, value, limit) ==
    IF field \notin valid_fields
    THEN [ status |-> "ValueError", rows |-> << >> ]
    ELSE [ status |-> "ok",
           rows   |-> ScanLike(d, field, << "%" >> \o value \o << "%" >>, limit, 1) ]

\* The route: the rows with 200, or the message of the ValueError with 400.
search_by_field_route(d, field, value, limit) ==
    LET res == search_by_field(d, field, value, limit)
    IN  [ field  |-> field,
          value  |-> value,
          limit  |-> limit,
          status |-> res.status,
          http   |-> IF res.status = "ValueError" THEN 400 ELSE 200,
          rows   |-> res.rows ]

NoFieldSearch ==
    [ field |-> "none", value |-> << >>, limit |-> 0, status |-> "none",
      http |-> 0, rows |-> << >> ]

\* The field searches the model makes.
FieldNames == { "assignee", "category", "ipc_class", "inventors", "country", "title" }

FieldValues == { w_google, w_Ada, w_underscore }

FieldLimits == { 1, 10 }

\* The thread that serves the reading requests: it has a connection of its
\* own (self.local) and never runs index_patents.
ReaderThread == "reader"

\* Faulty variant of rollback: one connection shared by all threads.
rollback_shared(t, wr, tx) == [ writer |-> "none", txn |-> EmptyDb ]

\* self.local.conn.rollback() in thread t: what thread t's connection wrote
\* and has not committed is undone; wr holds the write lock and tx is its
\* uncommitted table.
rollback(t, wr, tx) ==
    IF wr = t THEN [ writer |-> "none", txn |-> EmptyDb ]
    ELSE [ writer |-> wr, txn |-> tx ]

(***************************************************************************)
(* parser.py: the text of a file and its split into documents              *)
(*                                                                         *)
(* A text is a sequence of pieces: "decl" is <?xml version="1.0" ...?>,    *)
(* "doctype" is <!DOCTYPE ...>, "oa" and "ca" are the open and the close   *)
(* tag of us-patent-application, "og" and "cg" those of us-patent-grant,   *)
(* "nl" is a newline, "sp" a blank, "bad" markup that is not well formed;  *)
(* every other piece is the well-formed content of a root element and      *)
(* names the record that the extraction makes of it ("rs" has a title of   *)
(* fewer than MinTitle characters).                                        *)
(***************************************************************************)
MaxDocs == 50

IsBlank(t) == t \in { "nl", "sp" }

Markup == { "decl", "doctype", "oa", "ca", "og", "cg", "bad" }

\* str.strip()
strip(text) ==
    LET nb == { i \in DOMAIN text : ~IsBlank(text[i]) }
    IN  IF nb = { } THEN << >>
        ELSE SubSeq(text, CHOOSE i \in nb : \A j \in nb : i <= j,
                          CHOOSE i \in nb : \A j \in nb : i >= j)

\* ET.parse / ET.fromstring succeed: an optional declaration at the very
\* start, an optional document type, one root element with well-formed
\* content, and nothing but blanks around them.
WellFormed(text) ==
    LET opens == { i \in DOMAIN text : text[i] \in { "oa", "og" } }
        i     == CHOOSE i \in opens : \A j \in opens : i <= j
        last  == Len(strip(SubSeq(text, i, Len(text)))) + i - 1
        pro   == SelectSeq(SubSeq(text, 1, i - 1), LAMBDA t : ~IsBlank(t))
    IN  /\ opens # { }
        /\ last > i
        /\ << text[i], text[last] >> \in { << "oa", "ca" >>, << "og", "cg" >> }
        /\ \A k \in (i + 1)..(last - 1) : text[k] \notin Markup
        /\ pro \in { << >>, << "decl" >>, << "doctype" >>, << "decl", "doctype" >> }
        /\ "decl" \in Range(pro) => text[1] = "decl"

\* extract_from_root: the root is the one patent application of the tree;
\* its record is kept unless the validator returns None.  A root without
\* content gets the default title and abstract.
extract_from_root(text) ==
    LET body == SelectSeq(text, LAMBDA t : t \notin Markup /\ ~IsBlank(t))
    IN  IF body = << >> THEN << "untitled" >>
        ELSE IF body[1] = "rs" THEN << >>
        ELSE << body[1] >>

\* The end of the match of pattern that begins at piece i of c, or 0: the
\* declaration, blanks, the document type, blanks, the open tag of
\* us-patent-application and the shortest text up to a close tag of it.
RECURSIVE SkipBlanks(_, _)
SkipBlanks(c, i) ==
    IF i <= Len(c) /\ IsBlank(c[i]) THEN SkipBlanks(c, i + 1) ELSE i

PatternEnd(c, i) ==
    LET j == SkipBlanks(c, i + 1)
        k == SkipBlanks(c, j + 1)
        E == { m \in (k + 1)..Len(c) : c[m] = "ca" }
    IN  IF c[i] # "decl" \/ j > Len(c) \/ k > Len(c) THEN 0
        ELSE IF c[j] # "doctype" \/ c[k] # "oa" \/ E = { } THEN 0
        ELSE CHOOSE m \in E : \A n \in E : m <= n

\* Faulty variant of finditer: the pattern never matches.
finditer_none(c, i) == << >>

\* re.finditer(pattern, content, re.DOTALL): the matches from piece i on
RECURSIVE finditer(_, _)
finditer(c, i) ==
    IF i > Len(c) THEN << >>
    ELSE IF PatternEnd(c, i) = 0 THEN finditer(c, i + 1)
    ELSE << SubSeq(c, i, PatternEnd(c, i)) >> \o finditer(c, PatternEnd(c, i) + 1)

\* content.split('\n')
RECURSIVE SplitLines(_, _)
SplitLines(c, cur) ==
    IF c = << >> THEN << cur >>
    ELSE IF Head(c) = "nl" THEN << cur >> \o SplitLines(Tail(c), << >>)
    ELSE SplitLines(Tail(c), Append(cur, Head(c)))

\* Faulty variant of ScanLine: a declaration line does not empty current_doc.
ScanLineKeeps(st, line) ==
    LET line_stripped == strip(line)
    IN  IF line_stripped # << >> /\ line_stripped[1] = "decl"
        THEN [ st EXCEPT
                 !.documents = IF st.doc_started /\ strip(st.current_doc) # << >>
                               THEN Append(@, strip(st.current_doc)) ELSE @,
                 !.current_doc = @ \o line \o << "nl" >>,
                 !.doc_started = TRUE,
                 !.doc_depth = 0 ]
        ELSE IF st.doc_started
        THEN LET doc   == st.current_doc \o line \o << "nl" >>
                 depth == IF "oa" \in Range(line_stripped) THEN st.doc_depth + 1
                          ELSE IF "ca" \in Range(line_stripped) THEN st.doc_depth - 1
                          ELSE st.doc_depth
                 ends  == /\ "oa" \notin Range(line_stripped)
                          /\ "ca" \in Range(line_stripped)
                          /\ depth = 0
             IN  [ st EXCEPT
                     !.documents = IF ends THEN Append(@, strip(doc)) ELSE @,
                     !.current_doc = IF ends THEN << >> ELSE doc,
                     !.doc_started = ~ends,
                     !.doc_depth = depth ]
        ELSE st

\* One turn of the loop of split_by_lines_improved on the locals st.
ScanLine(st, line) ==
    LET line_stripped == strip(line)
    IN  IF line_stripped # << >> /\ line_stripped[1] = "decl"
        THEN [ st EXCEPT
                 !.documents = IF st.doc_started /\ strip(st.current_doc) # << >>
                               THEN Append(@, strip(st.current_doc)) ELSE @,
                 !.current_doc = line \o << "nl" >>,
                 !.doc_started = TRUE,
                 !.doc_depth = 0 ]
        ELSE IF st.doc_started
        THEN LET doc   == st.current_doc \o line \o << "nl" >>
                 depth == IF "oa" \in Range(line_stripped) THEN st.doc_depth + 1
                          ELSE IF "ca" \in Range(line_stripped) THEN st.doc_depth - 1
                          ELSE st.doc_depth
                 ends  == /\ "oa" \notin Range(line_stripped)
                          /\ "ca" \in Range(line_stripped)
                          /\ depth = 0
             IN  [ st EXCEPT
                     !.documents = IF ends THEN Append(@, strip(doc)) ELSE @,
                     !.current_doc = IF ends THEN << >> ELSE doc,
                     !.doc_started = ~ends,
                     !.doc_depth = depth ]
        ELSE st

\* The loop over documents[:50]: the records of the documents that parse.
RECURSIVE ProcessDocuments(_)
ProcessDocuments(docs) ==
    IF docs = << >> THEN << >>
    ELSE (IF strip(Head(docs)) # << >> /\ WellFormed(strip(Head(docs)))
          THEN extract_from_root(strip(Head(docs))) ELSE << >>)
         \o ProcessDocuments(Tail(docs))

\* Faulty variant of ParsesWhole: the parse of the whole file always fails.
ParsesNever(text) == FALSE

\* ET.parse(xml_file_path) does not raise ParseError.
ParsesWhole(text) == WellFormed(text)

\* Documents of the kinds found in USPTO files: an application with a
\* document type, the same on one line, a grant (no document type), a grant
\* on one line, an application whose content is not well formed.
DocApp(r) == << "decl", "nl", "doctype", "nl", "oa", "nl", r, "nl", "ca", "nl" >>

DocAppFlat(r) == << "decl", "doctype", "oa", r, "ca" >>

DocGrant(r) == << "decl", "nl", "og", "nl", r, "nl", "cg", "nl" >>

DocGrantFlat(r) == << "decl", "og", r, "cg" >>

DocBad == << "decl", "nl", "doctype", "nl", "oa", "nl", "bad", "nl", "ca", "nl" >>

ValidDocs ==
    { DocApp("r1"), DocApp("r2"), DocApp("rs"), DocAppFlat("r3"), DocGrant("r2"),
      DocGrantFlat("r1") }

Docs == ValidDocs \cup { DocBad }

\* The files given to parse_uspto_xml, as lists of the documents written
\* one after the other: up to three documents, and one file of more than
\* MaxDocs documents.
DocLists ==
    { << a >> : a \in Docs }
    \cup { << a, b >> : a, b \in Docs }
    \cup { << a, b, c >> : a, b, c \in Docs }
    \cup { [ i \in 1..(MaxDocs + 1) |->
               IF i = 1 THEN DocBad
               ELSE IF i > MaxDocs THEN DocAppFlat("r3") ELSE DocAppFlat("r1") ] }

\* Documents that the pattern does not find: an application without a
\* document type, the same with its root on one line, with the declaration
\* and the open tag on one line, without a declaration, and a line that
\* belongs to no document.
DocPlain(r) == << "decl", "nl", "oa", "nl", r, "nl", "ca", "nl" >>

DocPlainFlat(r) == << "decl", "nl", "oa", r, "ca", "nl" >>

DocDeclOpen(r) == << "decl", "oa", "nl", r, "nl", "ca", "nl" >>

DocBare(r) == << "oa", "nl", r, "nl", "ca", "nl" >>

DocJunk == << "bad", "nl" >>

\* The documents with a declaration whose root is opened and closed.
ClosedDocs == { DocPlain("r1"), DocPlainFlat("r2"), DocDeclOpen("r3") }

LineDocs == ClosedDocs \cup { DocBare("r3"), DocJunk, DocApp("r1") }

\* The files where the line scan is studied: up to MaxLineDocs documents
\* written one after the other.
MaxLineDocs == 3

LineDocLists == UNION { [ 1..n -> LineDocs ] : n \in 1..MaxLineDocs }

RECURSIVE Concat(_)
Concat(docs) == IF docs = << >> THEN << >> ELSE Head(docs) \o Concat(Tail(docs))

NoParse ==
    [ pc |-> "idle", docs |-> << >>, content |-> << >>, ran |-> << >>,
      lines |-> << >>, line_no |-> 0, documents |-> << >>, current_doc |-> << >>,
      doc_started |-> FALSE, doc_depth |-> 0, units |-> << >>,
      patents |-> << >> ]

NoCall == [ fn |-> "none", arg |-> << >>, ret |-> << >> ]

(***************************************************************************)
(* format_date                                                             *)
(***************************************************************************)
\* The years datetime.now().year may give.
Years == { 2025, 2026 }

\* re.sub(r'[^\d]', '', date_str)
OnlyDigits(text) == SelectSeq(text, LAMBDA c : c \in Range(Digits))

\* Faulty variant of format_date: eight digits are not yet a full date.
format_date_late(date, year) ==
    LET d == OnlyDigits(date.text)
        dflt == Decimal(year) \o << "-", "0", "1", "-", "0", "1" >>
    IN  IF ~date.present THEN dflt
        ELSE IF Len(d) > 8
        THEN SubSeq(d, 1, 4) \o << "-" >> \o SubSeq(d, 5, 6) \o << "-" >> \o SubSeq(d, 7, 8)
        ELSE IF Len(d) >= 6
        THEN SubSeq(d, 1, 4) \o << "-" >> \o SubSeq(d, 5, 6) \o << "-", "0", "1" >>
        ELSE IF Len(d) >= 4 THEN SubSeq(d, 1, 4) \o << "-", "0", "1", "-", "0", "1" >>
        ELSE dflt

\* format_date(date_str) in the year `year`; a date that is not present is
\* None: re.sub raises TypeError, the except clause passes, and the default
\* is returned.
format_date(date, year) ==
    LET d == OnlyDigits(date.text)
        dflt == Decimal(year) \o << "-", "0", "1", "-", "0", "1" >>
    IN  IF ~date.present THEN dflt
        ELSE IF Len(d) >= 8
        THEN SubSeq(d, 1, 4) \o << "-" >> \o SubSeq(d, 5, 6) \o << "-" >> \o SubSeq(d, 7, 8)
        ELSE IF Len(d) >= 6
        THEN SubSeq(d, 1, 4) \o << "-" >> \o SubSeq(d, 5, 6) \o << "-", "0", "1" >>
        ELSE IF Len(d) >= 4 THEN SubSeq(d, 1, 4) \o << "-", "0", "1", "-", "0", "1" >>
        ELSE dflt

\* The texts given to format_date: the first n digits of a run of digits,
\* bare, with dashes after the fourth and the sixth, or between letters.
DigitRuns ==
    { << "2", "0", "2", "3", "0", "6", "1", "5", "9" >>,
      << "2", "0", "2", "3", "1", "3", "4", "5", "0" >>,
      << "1", "9", "9", "9", "0", "0", "0", "0", "7" >> }

Dashed(d) ==
    LET Part(a, b) == SubSeq(d, a, IF b > Len(d) THEN Len(d) ELSE b)
    IN  Part(1, 4) \o (IF Len(d) > 4 THEN << "-" >> ELSE << >>) \o Part(5, 6)
        \o (IF Len(d) > 6 THEN << "-" >> ELSE << >>) \o Part(7, Len(d))

w_garbage == << "g", "a", "r", "b", "a", "g", "e" >>

DateTexts ==
    UNION { { SubSeq(r, 1, n), Dashed(SubSeq(r, 1, n)),
              << "x" >> \o SubSeq(r, 1, n) \o << " ", "y" >> } :
            r \in DigitRuns, n \in 0..9 }
    \cup { w_garbage }

DateInputs ==
    { [ present |-> TRUE, text |-> t ] : t \in DateTexts }
    \cup { [ present |-> FALSE, text |-> << >> ] }

(***************************************************************************)
(* categorize_patent                                                       *)
(***************************************************************************)
\* Faulty variant of specific_patterns: telecommunications comes first.
specific_patterns_swapped ==
    << [ category |-> "telecommunications",
         patterns |-> << << "H", "0", "4" >>,
                       << "c", "o", "m", "m", "u", "n", "i", "c", "a", "t", "i", "o", "n" >>,
                       << "w", "i", "r", "e", "l", "e", "s", "s" >>,
                       << "n", "e", "t", "w", "o", "r", "k" >> >> ],
       [ category |-> "artificial_intelligence",
         patterns |-> << << "G", "0", "6", "N" >>,
                       << "A", "I" >>,
                       << "m", "a", "c", "h", "i", "n", "e", " ", "l", "e", "a", "r", "n", "i", "n", "g" >>,
                       << "n", "e", "u", "r", "a", "l", " ", "n", "e", "t", "w", "o", "r", "k" >> >> ],
       [ category |-> "biotechnology",
         patterns |-> << << "C", "1", "2" >>,
                       << "A", "6", "1" >>,
                       << "g", "e", "n", "e", "t", "i", "c" >>,
                       << "b", "i", "o", "l", "o", "g", "i", "c", "a", "l" >>,
                       << "m", "e", "d", "i", "c", "a", "l" >> >> ],
       [ category |-> "semiconductors",
         patterns |-> << << "H", "0", "1", "L" >>,
                       << "s", "e", "m", "i", "c", "o", "n", "d", "u", "c", "t", "o", "r" >>,
                       << "t", "r", "a", "n", "s", "i", "s", "t", "o", "r" >>,
                       << "c", "h", "i", "p" >> >> ],
       [ category |-> "automotive",
         patterns |-> << << "B", "6", "0" >>,
                       << "v", "e", "h", "i", "c", "l", "e" >>,
                       << "a", "u", "t", "o", "m", "o", "t", "i", "v", "e" >>,
                       << "c", "a", "r" >> >> ],
       [ category |-> "energy",
         patterns |-> << << "H", "0", "2" >>,
                       << "F", "0", "3" >>,
                       << "s", "o", "l", "a", "r" >>,
                       << "b", "a", "t", "t", "e", "r", "y" >>,
                       << "e", "n", "e", "r", "g", "y" >> >> ] >>

\* specific_patterns, in the order of the dictionary
specific_patterns ==
    << [ category |-> "artificial_intelligence",
         patterns |-> << << "G", "0", "6", "N" >>,
                       << "A", "I" >>,
                       << "m", "a", "c", "h", "i", "n", "e", " ", "l", "e", "a", "r", "n", "i", "n", "g" >>,
                       << "n", "e", "u", "r", "a", "l", " ", "n", "e", "t", "w", "o", "r", "k" >> >> ],
       [ category |-> "telecommunications",
         patterns |-> << << "H", "0", "4" >>,
                       << "c", "o", "m", "m", "u", "n", "i", "c", "a", "t", "i", "o", "n" >>,
                       << "w", "i", "r", "e", "l", "e", "s", "s" >>,
                       << "n", "e", "t", "w", "o", "r", "k" >> >> ],
       [ category |-> "biotechnology",
         patterns |-> << << "C", "1", "2" >>,
                       << "A", "6", "1" >>,
                       << "g", "e", "n", "e", "t", "i", "c" >>,
                       << "b", "i", "o", "l", "o", "g", "i", "c", "a", "l" >>,
                       << "m", "e", "d", "i", "c", "a", "l" >> >> ],
       [ category |-> "semiconductors",
         patterns |-> << << "H", "0", "1", "L" >>,
                       << "s", "e", "m", "i", "c", "o", "n", "d", "u", "c", "t", "o", "r" >>,
                       << "t", "r", "a", "n", "s", "i", "s", "t", "o", "r" >>,
                       << "c", "h", "i", "p" >> >> ],
       [ category |-> "automotive",
         patterns |-> << << "B", "6", "0" >>,
                       << "v", "e", "h", "i", "c", "l", "e" >>,
                       << "a", "u", "t", "o", "m", "o", "t", "i", "v", "e" >>,
                       << "c", "a", "r" >> >> ],
       [ category |-> "energy",
         patterns |-> << << "H", "0", "2" >>,
                       << "F", "0", "3" >>,
                       << "s", "o", "l", "a", "r" >>,
                       << "b", "a", "t", "t", "e", "r", "y" >>,
                       << "e", "n", "e", "r", "g", "y" >> >> ] >>

\* ipc_categories.get(first_char, 'other')
ipc_categories(first_char) ==
    CASE first_char = "A" -> "human_necessities"
      [] first_char = "B" -> "performing_operations"
      [] first_char = "C" -> "chemistry_metallurgy"
      [] first_char = "D" -> "textiles_paper"
      [] first_char = "E" -> "fixed_constructions"
      [] first_char = "F" -> "mechanical_engineering"
      [] first_char = "G" -> "physics"
      [] first_char = "H" -> "electricity"
      [] OTHER -> "other"

\* str.upper() on one character
UpperChar(c) ==
    IF \E i \in DOMAIN LowerCase : LowerCase[i] = c
    THEN UpperCase[CHOOSE i \in DOMAIN LowerCase : LowerCase[i] = c]
    ELSE c

\* The two loops of categorize_patent from category n on: the first
\* category with a pattern that is in the title or in the class.
RECURSIVE PatternLoop(_, _, _)
PatternLoop(n, ipc_class, title_lower) ==
    IF n > Len(specific_patterns) THEN ipc_categories(UpperChar(ipc_class[1]))
    ELSE IF \E i \in DOMAIN specific_patterns[n].patterns :
                LET pattern == specific_patterns[n].patterns[i]
                IN  Count(title_lower, Lower(pattern)) > 0 \/ Count(ipc_class, pattern) > 0
    THEN specific_patterns[n].category
    ELSE PatternLoop(n + 1, ipc_class, title_lower)

categorize_patent(ipc_class, title) ==
    PatternLoop(1, IF ipc_class = << >> THEN << "G", "0", "6", "F" >> ELSE ipc_class,
                Lower(title))

\* The titles and the classes given to categorize_patent.
Titles ==
    { << "N", "e", "u", "r", "a", "l", " ", "N", "e", "t", "w", "o", "r", "k", " ", "e", "n", "g", "i", "n", "e" >>,
      << "o", "p", "t", "i", "c", "a", "l", " ", "n", "e", "t", "w", "o", "r", "k" >>,
      << "W", "i", "r", "e", "l", "e", "s", "s", " ", "c", "h", "i", "p" >>,
      << "A", "I", " ", "S", "y", "s", "t", "e", "m" >>,
      << "c", "h", "a", "i", "r", " ", "d", "e", "s", "i", "g", "n" >>,
      << "s", "o", "l", "a", "r", " ", "c", "a", "r" >>,
      << "M", "e", "d", "i", "c", "a", "l", " ", "d", "e", "v", "i", "c", "e" >>,
      << "r", "o", "u", "t", "e", "r", " ", "h", "u", "b" >>,
      << >>,
      << "M", "A", "C", "H", "I", "N", "E", " ", "L", "E", "A", "R", "N", "I", "N", "G" >> }

IpcCodes ==
    { << "G", "0", "6", "F", "1", "2", "3", "4" >>,
      << "G", "0", "6", "N" >>,
      << "H", "0", "4", "L" >>,
      << "H", "0", "1", "L", "2", "1" >>,
      << "C", "1", "2", "N" >>,
      << "B", "6", "0", "K" >>,
      << "F", "0", "3", "D" >>,
      << "A", "4", "7", "B" >>,
      << "Z", "9", "9" >>,
      << >>,
      << "g", "0", "6", "f" >> }

(***************************************************************************)
(* Extraction from one document tree                                       *)
(*                                                                         *)
(* A tree is the sequence of its elements below the root in document       *)
(* order; an element is the tags on the way to it, its own tag last, and   *)
(* its text (the text before its first child; << >> when it has none).     *)
(* A path such as './/document-id/doc-number' is the sequence of its       *)
(* steps, << "//", tag >> for a descendant and << "/", tag >> for a child. *)
(***************************************************************************)
\* str.strip()
str_strip(s) ==
    LET nb == { i \in DOMAIN s : ~IsSpace(s[i]) }
    IN  IF nb = { } THEN << >>
        ELSE SubSeq(s, CHOOSE i \in nb : \A j \in nb : i <= j,
                       CHOOSE i \in nb : \A j \in nb : i >= j)

\* Step j of path is taken by the tag at depth k of the element, and the
\* steps before it by tags above.
RECURSIVE StepAt(_, _, _, _)
StepAt(tags, k, path, j) ==
    /\ k >= 1
    /\ tags[k] = path[j][2]
    /\ \/ j = 1
       \/ j > 1 /\ path[j][1] = "/" /\ StepAt(tags, k - 1, path, j - 1)
       \/ j > 1 /\ path[j][1] = "//"
                /\ \E m \in 1..(k - 1) : StepAt(tags, m, path, j - 1)

\* Element.findall(path): the elements the path selects, in document order.
findall(tree, path) ==
    SelectSeq(tree, LAMBDA e : StepAt(e.tags, Len(e.tags), path, Len(path)))

\* extract_patent_id; generated is the identifier made from hash().
extract_patent_id(tree, generated) ==
    LET id_paths ==
            << << << "//", "document-id" >>, << "/", "doc-number" >> >>,
               << << "//", "publication-reference" >>, << "//", "doc-number" >> >>,
               << << "//", "application-reference" >>, << "//", "doc-number" >> >>,
               << << "//", "subdoc-bibliographic-information" >>,
                  << "//", "document-id" >>, << "/", "doc-number" >> >>,
               << << "//", "patent-number" >> >>,
               << << "//", "application-number" >> >> >>
        \* find(path) is the first element of findall(path)
        found(n) == LET all == findall(tree, id_paths[n])
                    IN  all # << >> /\ str_strip(all[1].text) # << >>
        good == { n \in DOMAIN id_paths : found(n) }
    IN  IF good = { } THEN generated
        ELSE str_strip(findall(tree, id_paths[CHOOSE n \in good : \A m \in good : n <= m])[1].text)

\* The texts appended for the paths from n on: every element with a text
\* gives its stripped text.
RECURSIVE AppendTexts(_, _, _)
AppendTexts(tree, paths, n) ==
    IF n > Len(paths) THEN << >>
    ELSE LET texts == SelectSeq(findall(tree, paths[n]), LAMBDA e : e.text # << >>)
         IN  [ i \in DOMAIN texts |-> str_strip(texts[i].text) ]
             \o AppendTexts(tree, paths, n + 1)

extract_classifications_robust(tree) ==
    LET ipc_paths ==
            << << << "//", "classifications-ipc" >>, << "//", "main-classification" >> >>,
               << << "//", "classification-ipc" >>, << "//", "main-classification" >> >>,
               << << "//", "ipc-classification" >> >>,
               << << "//", "classification-ipc" >> >> >>
        us_paths ==
            << << << "//", "classification-us" >>, << "//", "main-classification" >> >>,
               << << "//", "us-classification" >> >>,
               << << "//", "classification-national" >> >> >>
        ipc == AppendTexts(tree, ipc_paths, 1)
        us  == AppendTexts(tree, us_paths, 1)
        classifications ==
            IF ipc # << >> THEN ipc ELSE [ i \in DOMAIN us |-> << "U", "S" >> \o us[i] ]
    IN  IF classifications # << >> THEN classifications ELSE << c_G06F >>

\* clean_text: the runs of whitespace of the stripped text become one
\* blank each, then every character outside the allowed ones becomes a
\* blank, and the first 5000 characters are returned.
RECURSIVE CollapseSpaces(_)
CollapseSpaces(text) ==
    IF text = << >> THEN << >>
    ELSE IF IsSpace(Head(text))
    THEN IF Len(text) > 1 /\ IsSpace(text[2]) THEN CollapseSpaces(Tail(text))
         ELSE << " " >> \o CollapseSpaces(Tail(text))
    ELSE << Head(text) >> \o CollapseSpaces(Tail(text))

clean_text(text) ==
    LET allowed(c) == IsWordChar(c) \/ IsSpace(c)
                      \/ c \in { "-", ".", ",", ";", ":", "(", ")", "[", "]" }
        collapsed == CollapseSpaces(str_strip(text))
        t == [ i \in DOMAIN collapsed |->
                 IF allowed(collapsed[i]) THEN collapsed[i] ELSE " " ]
    IN  SubSeq(t, 1, IF Len(t) > 5000 THEN 5000 ELSE Len(t))

\* extract_text_content of an element without children: its stripped text.
extract_text_content(element) == str_strip(element.text)

\* Faulty variant of find_element_flexible: an element without text is
\* passed over.
find_element_with_text(tree, possible_paths) ==
    LET some == { n \in DOMAIN possible_paths :
                    \E i \in DOMAIN findall(tree, possible_paths[n]) :
                        findall(tree, possible_paths[n])[i].text # << >> }
    IN  IF some = { } THEN << >>
        ELSE LET all == findall(tree, possible_paths[CHOOSE n \in some : \A m \in some : n <= m])
             IN  << all[CHOOSE i \in DOMAIN all :
                          /\ all[i].text # << >>
                          /\ \A j \in 1..(i - 1) : all[j].text = << >>] >>

\* find_element_flexible: the element found by the first path that finds
\* one, as a list of one element, or the empty list for None.
find_element_flexible(tree, possible_paths) ==
    LET some == { n \in DOMAIN possible_paths : findall(tree, possible_paths[n]) # << >> }
    IN  IF some = { } THEN << >>
        ELSE << findall(tree, possible_paths[CHOOSE n \in some : \A m \in some : n <= m])[1] >>

\* What extract_patent_data_robust returns when the validator fails.
None == [ none |-> TRUE ]

\* extract_patent_data_robust for a tree whose text elements have no
\* children and that has no assignee, inventor and date elements: the
\* identifier, the four texts, the classes and the category, or None when
\* the title or the abstract is too short.
extract_patent_data_robust(tree, generated) ==
    LET Anywhere(tag) == << << "//", tag >> >>
        title_paths == << Anywhere("invention-title"), Anywhere("title-of-invention"),
                          Anywhere("invention-title-text"), Anywhere("title") >>
        abstract_paths == << Anywhere("abstract"), Anywhere("abstract-text"), Anywhere("subdoc-abstract") >>
        claims_paths == << Anywhere("claims"), Anywhere("claim"), Anywhere("subdoc-claims") >>
        description_paths == << Anywhere("description"), Anywhere("detailed-description"),
                                Anywhere("subdoc-description") >>
        title_elem == find_element_flexible(tree, title_paths)
        abstract_elem == find_element_flexible(tree, abstract_paths)
        claims_elem == find_element_flexible(tree, claims_paths)
        description_elem == find_element_flexible(tree, description_paths)
        title == IF title_elem # << >> THEN clean_text(extract_text_content(title_elem[1]))
                 ELSE << "U", "n", "t", "i", "t", "l", "e", "d" >>
        abstract == IF abstract_elem # << >>
                    THEN clean_text(extract_text_content(abstract_elem[1]))
                    ELSE << "N", "o", " ", "a", "b", "s", "t", "r", "a", "c", "t", " ", "a", "v", "a", "i", "l", "a", "b", "l", "e" >>
        description_text == IF description_elem # << >>
                            THEN clean_text(extract_text_content(description_elem[1]))
                            ELSE << >>
        ipc_classes == extract_classifications_robust(tree)
        ipc_class   == IF ipc_classes # << >> THEN ipc_classes[1] ELSE c_G06F
    IN  IF Len(title) < MinTitle \/ Len(abstract) < MinAbstract THEN None
        ELSE [ id          |-> extract_patent_id(tree, generated),
               title       |-> title,
               abstract    |-> abstract,
               ipc_classes |-> ipc_classes,
               ipc_class   |-> ipc_class,
               claims      |-> IF claims_elem # << >>
                               THEN clean_text(extract_text_content(claims_elem[1]))
                               ELSE << "N", "o", " ", "c", "l", "a", "i", "m", "s", " ", "a", "v", "a", "i", "l", "a", "b", "l", "e" >>,
               description |-> SubSeq(description_text, 1,
                                      IF Len(description_text) > 3000 THEN 3000
                                      ELSE Len(description_text)),
               category    |-> categorize_patent(ipc_class, title) ]

\* The trees: up to MaxBlocks blocks below the root, each a reference, a
\* number or a classification.
Leaf(tags, text) == [ tags |-> tags, text |-> text ]

Reference(kind, number) ==
    << Leaf(<< kind >>, << >>),
       Leaf(<< kind, "document-id" >>, << >>),
       Leaf(<< kind, "document-id", "doc-number" >>, number) >>

ReferenceFlat(kind, number) ==
    << Leaf(<< kind >>, << >>), Leaf(<< kind, "doc-number" >>, number) >>

Classification(kind, text) ==
    << Leaf(<< kind >>, << >>), Leaf(<< kind, "main-classification" >>, text) >>

Blocks ==
    { Reference("publication-reference", << "1", "1", "1" >>),
      Reference("publication-reference", << " ", " " >>),
      Reference("application-reference", << "2", "2", "2" >>),
      ReferenceFlat("publication-reference", << " ", "3", "3", "3" >>),
      << Leaf(<< "patent-number" >>, << "9" >>) >>,
      Classification("classification-ipc", << "H", "0", "4", "L" >>),
      Classification("classification-ipc", << " ", " " >>),
      Classification("classification-us", << "7", "0", "7" >>),
      << Leaf(<< "ipc-classification" >>, << " ", "B", "6", "0", "K", " " >>) >>,
      << Leaf(<< "classification-ipc" >>, << " " >>),
         Leaf(<< "classification-ipc", "edition" >>, << "7" >>) >> }

MaxBlocks == 3

Trees ==
    UNION { { Concat(bs) : bs \in [ 1..n -> Blocks ] } : n \in 0..MaxBlocks }

GeneratedIds == { << "P", "A", "T", "E", "N", "T", "_", "-", "5", "1", "7", "3", "3", "5", "7" >>, << "P", "A", "T", "E", "N", "T", "_", "7", "4", "3", "4", "7", "0", "5", "6" >> }

\* The trees with text elements: up to MaxTextBlocks of them below the
\* root, some empty, some found by a later path only.
TextBlocks ==
    { Leaf(<< "invention-title" >>, << >>),
      Leaf(<< "invention-title" >>, << "O", "p", "t", "i", "c", "a", "l", " ", "r", "o", "u", "t", "e", "r" >>),
      Leaf(<< "title-of-invention" >>, << "A", "b" >>),
      Leaf(<< "title" >>, << " ", "A", " ", "l", "o", "n", "g", " ", "t", "i", "t", "l", "e", " " >>),
      Leaf(<< "abstract" >>, << >>),
      Leaf(<< "abstract" >>, << "A", "n", " ", "a", "b", "s", "t", "r", "a", "c", "t", " ", "l", "o", "n", "g", " ", "e", "n", "o", "u", "g", "h" >>),
      Leaf(<< "abstract-text" >>, << "A", "n", "o", "t", "h", "e", "r", " ", "l", "o", "n", "g", " ", "a", "b", "s", "t", "r", "a", "c", "t" >>),
      Leaf(<< "claims" >>, << >>),
      Leaf(<< "claim" >>, << "1", ".", " ", "A", " ", "d", "e", "v", "i", "c", "e" >>),
      Leaf(<< "description" >>, << >>),
      Leaf(<< "detailed-description" >>, << "D", "e", "t", "a", "i", "l", "s" >>) }

MaxTextBlocks == 3

TextTrees == UNION { [ 1..n -> TextBlocks ] : n \in 0..MaxTextBlocks }

\* The texts given to clean_text.
CleanInputs ==
    { << >>,
      << " ", " ", " " >>,
      << "a", " ", "&", " ", "b" >>,
      << " ", "\t", " ", "x", "\n", "\n", "y", " " >>,
      << "a", "@", "@", "b" >>,
      << "&", "a", "b", "c" >>,
      << "a", "b", "c", "!" >>,
      << "x", " ", " ", "y" >>,
      << "R", "&", "D" >>,
      << "a", "-", "b", ".", "c", ",", "(", "d", ")", "[", "e", "]", ";", ":", "f", "_", "g" >>,
      << "p", "l", "a", "i", "n", " ", "t", "e", "x", "t" >>,
      << "a", " ", " ", "&", " ", " ", "b" >>,
      << "<", "b", ">", "b", "o", "l", "d", "<", "/", "b", ">" >>,
      << "5", "0", "%", " ", "f", "a", "s", "t", "e", "r" >>,
      << "i", "t", "'", "s" >>,
      << "a", "\t", "b" >>,
      << "\"", "q", "\"" >>,
      << "x", "/", "y" >>,
      << "#", "1" >>,
      << "a", "_", "b" >>,
      << "(", "1", ")", " ", "[", "2", "]", ";", " ", "3", ":", " ", "4", ",", " ", "5", "." >> }

(***************************************************************************)
(* load_data_sqlite                                                        *)
(***************************************************************************)
\* What load_data_sqlite returns after index_patents(patents) has returned.
load_data_sqlite(patents) == [ success |-> TRUE, indexed |-> Len(patents) ]

(***************************************************************************)
(* State                                                                   *)
(***************************************************************************)
VARIABLES
    db,        \* the committed content of the database file
    txn,       \* the content as the open write transaction sees it
    writer,    \* the worker whose connection holds the write lock, or "none"
    pc,        \* pc[w]: where worker w stands in index_patents
    batch,     \* batch[w]: patents_data of w's call
    idx,       \* idx[w]: the loop index i of w's call
    started,   \* index_patents calls so far
    prevRows,  \* prevRows[w]: the committed rows when w's call began
    solo,      \* solo[w]: no other call ran or began since w's call began
    aggpc,     \* the next statement of the get_aggregations call under way
    agg,       \* the aggregations dictionary being filled, or last returned
    out,       \* the outcome of the last search call
    fld,       \* the outcome of the last request /api/search/<field>/<value>
    parser,    \* the locals of the parse_uspto_xml call under way
    call       \* a call of one of the parser's pure functions and its result

vars == << db, txn, writer, pc, batch, idx, started, prevRows, solo, aggpc, agg, out, fld, parser, call >>

engineVars == << db, txn, writer, pc, batch, idx, started, prevRows, solo, aggpc, agg, out, fld >>

rebuildVars == << db, txn, writer, pc, batch, idx, started, prevRows, solo >>

Active(w) == pc[w] \notin { "idle", "done", "failed" }

\* The search engine just constructed: init_database has run on a new file.
EngineInit ==
    /\ db = EmptyDb
    /\ txn = EmptyDb
    /\ writer = "none"
    /\ pc = [ w \in Workers |-> "idle" ]
    /\ batch = [ w \in Workers |-> << >> ]
    /\ idx = [ w \in Workers |-> 0 ]
    /\ started = 0
    /\ prevRows = [ w \in Workers |-> { } ]
    /\ solo = [ w \in Workers |-> FALSE ]
    /\ aggpc = "idle"
    /\ agg = NoAgg
    /\ out = NoSearch
    /\ fld = NoFieldSearch

Init ==
    /\ EngineInit
    /\ parser = NoParse
    /\ call = NoCall

(***************************************************************************)
(* index_patents, statement by statement                                   *)
(***************************************************************************)
\* The call begins with the list b.
BeginRebuild(w, b) ==
    /\ ~Active(w)
    /\ started < MaxRebuilds
    /\ started' = started + 1
    /\ pc' = [ pc EXCEPT ![w] = "delete" ]
    /\ batch' = [ batch EXCEPT ![w] = b ]
    /\ idx' = [ idx EXCEPT ![w] = 0 ]
    /\ prevRows' = [ prevRows EXCEPT ![w] = Rows(db) ]
    /\ solo' = [ v \in Workers |->
                   IF v = w THEN \A o \in Workers \ { w } : ~Active(o)
                   ELSE FALSE ]
    /\ UNCHANGED << db, txn, writer, aggpc, agg, out, fld, parser, call >>

\* conn.execute("DELETE FROM patents"): opens a write transaction.
Delete(w) ==
    /\ pc[w] = "delete"
    /\ writer = "none"
    /\ writer' = w
    /\ txn' = DeleteAll(db)
    /\ pc' = [ pc EXCEPT ![w] = "commit_delete" ]
    /\ UNCHANGED << db, batch, idx, started, prevRows, solo, aggpc, agg, out, fld, parser, call >>

\* The DELETE waited 30 s for the lock another connection holds: "database
\* is locked" leaves get_connection (rollback, raise) and the call fails.
DeleteBusy(w) ==
    /\ pc[w] = "delete"
    /\ writer \notin { "none", w }
    /\ pc' = [ pc EXCEPT ![w] = "failed" ]
    /\ UNCHANGED << db, txn, writer, batch, idx, started, prevRows, solo, aggpc, agg, out, fld, parser, call >>

\* conn.commit() after the DELETE
CommitDelete(w) ==
    /\ pc[w] = "commit_delete"
    /\ writer = w
    /\ db' = txn
    /\ txn' = EmptyDb
    /\ writer' = "none"
    /\ pc' = [ pc EXCEPT ![w] = "insert" ]
    /\ UNCHANGED << batch, idx, started, prevRows, solo, aggpc, agg, out, fld, parser, call >>

\* One turn of the loop: the INSERT of patents_data[i], which a duplicate id
\* makes fail (caught, the record is skipped, the transaction stays open),
\* and the periodic commit.
Insert(w) ==
    /\ pc[w] = "insert"
    /\ idx[w] < Len(batch[w])
    /\ writer \in { "none", w }
    /\ LET base == IF writer = w THEN txn ELSE db
           k    == batch[w][idx[w] + 1]
           ok   == ~IdTaken(base, ResolveId(k, idx[w]))
           new  == IF ok THEN InsertPatent(base, k, idx[w]) ELSE base
       IN  IF ok /\ (idx[w] + 1) % CommitEvery = 0
           THEN /\ db' = new
                /\ txn' = EmptyDb
                /\ writer' = "none"
           ELSE /\ txn' = new
                /\ writer' = w
                /\ db' = db
    /\ idx' = [ idx EXCEPT ![w] = idx[w] + 1 ]
    /\ UNCHANGED << pc, batch, started, prevRows, solo, aggpc, agg, out, fld, parser, call >>

\* The INSERT waited 30 s for the lock: the exception is caught in the loop
\* and the record is skipped.
InsertBusy(w) ==
    /\ pc[w] = "insert"
    /\ idx[w] < Len(batch[w])
    /\ writer \notin { "none", w }
    /\ idx' = [ idx EXCEPT ![w] = idx[w] + 1 ]
    /\ UNCHANGED << db, txn, writer, pc, batch, started, prevRows, solo, aggpc, agg, out, fld, parser, call >>

\* conn.commit() after the loop
FinalCommit(w) ==
    /\ pc[w] = "insert"
    /\ idx[w] = Len(batch[w])
    /\ IF writer = w
       THEN /\ db' = txn
            /\ txn' = EmptyDb
            /\ writer' = "none"
       ELSE UNCHANGED << db, txn, writer >>
    /\ pc' = [ pc EXCEPT ![w] = "stats" ]
    /\ UNCHANGED << batch, idx, started, prevRows, solo, aggpc, agg, out, fld, parser, call >>

\* self.create_search_stats(): reads and prints, then the call returns.
Stats(w) ==
    /\ pc[w] = "stats"
    /\ pc' = [ pc EXCEPT ![w] = "done" ]
    /\ UNCHANGED << db, txn, writer, batch, idx, started, prevRows, solo, aggpc, agg, out, fld, parser, call >>

(***************************************************************************)
(* get_aggregations called by a reading thread: each statement reads the   *)
(* committed content at the moment it runs.                                *)
(***************************************************************************)
AggTopAssignees ==
    /\ aggpc = "idle"
    /\ agg' = [ NoAgg EXCEPT !.top_assignees = TopAssignees(db) ]
    /\ aggpc' = "categories"
    /\ UNCHANGED << rebuildVars, out, fld, parser, call >>

AggCategories ==
    /\ aggpc = "categories"
    /\ agg' = [ agg EXCEPT !.categories = Categories(db) ]
    /\ aggpc' = "ipc_classes"
    /\ UNCHANGED << rebuildVars, out, fld, parser, call >>

AggIpcClasses ==
    /\ aggpc = "ipc_classes"
    /\ agg' = [ agg EXCEPT !.ipc_classes = IpcClasses(db) ]
    /\ aggpc' = "by_year"
    /\ UNCHANGED << rebuildVars, out, fld, parser, call >>

AggByYear ==
    /\ aggpc = "by_year"
    /\ agg' = [ agg EXCEPT !.by_year = ByYear(db) ]
    /\ aggpc' = "total_patents"
    /\ UNCHANGED << rebuildVars, out, fld, parser, call >>

AggTotal ==
    /\ aggpc = "total_patents"
    /\ agg' = [ agg EXCEPT !.total_patents = TotalPatents(db) ]
    /\ aggpc' = "idle"
    /\ UNCHANGED << rebuildVars, out, fld, parser, call >>

\* A reading thread calls search.
Search(req) ==
    /\ \E o \in search(db, req) :
          /\ out' = o
          /\ LET c == IF o.status = "error"
                      THEN rollback(ReaderThread, writer, txn)
                      ELSE [ writer |-> writer, txn |-> txn ]
             IN  writer' = c.writer /\ txn' = c.txn
    /\ UNCHANGED << db, pc, batch, idx, started, prevRows, solo, aggpc, agg, fld, parser, call >>

\* A reading thread serves GET /api/search/<field>/<value>?limit=<limit>.
FieldSearch(field, value, limit) ==
    /\ fld' = search_by_field_route(db, field, value, limit)
    /\ UNCHANGED << rebuildVars, aggpc, agg, out, parser, call >>

(***************************************************************************)
(* parse_uspto_xml, step by step                                           *)
(***************************************************************************)
\* The call begins on the file made of the documents docs.
BeginParse(docs) ==
    /\ parser.pc = "idle"
    /\ parser' = [ NoParse EXCEPT !.pc = "whole", !.docs = docs,
                                  !.content = Concat(docs) ]
    /\ UNCHANGED << engineVars, call >>

\* ET.parse of the whole file: its records, or ParseError and on to
\* parse_concatenated_xml.
ParseWhole ==
    /\ parser.pc = "whole"
    /\ parser' = IF ParsesWhole(parser.content)
                 THEN [ parser EXCEPT !.pc = "done", !.ran = << "whole" >>,
                                      !.units = << parser.content >>,
                                      !.patents = extract_from_root(parser.content) ]
                 ELSE [ parser EXCEPT !.pc = "regex", !.ran = << "whole" >> ]
    /\ UNCHANGED << engineVars, call >>

\* re.finditer; split_by_lines_improved is called if it found nothing.
RegexScan ==
    /\ parser.pc = "regex"
    /\ LET found == finditer(parser.content, 1)
       IN  parser' = IF found # << >>
                     THEN [ parser EXCEPT !.pc = "process", !.ran = Append(@, "regex"),
                                          !.documents = found ]
                     ELSE [ parser EXCEPT !.pc = "lines",
                                          !.ran = @ \o << "regex", "lines" >>,
                                          !.lines = SplitLines(parser.content, << >>),
                                          !.line_no = 1 ]
    /\ UNCHANGED << engineVars, call >>

\* One turn of the loop over the lines.
LineStep ==
    /\ parser.pc = "lines"
    /\ parser.line_no <= Len(parser.lines)
    /\ parser' = [ ScanLine(parser, parser.lines[parser.line_no])
                     EXCEPT !.line_no = parser.line_no + 1 ]
    /\ UNCHANGED << engineVars, call >>

\* After the loop: the last document, if there is one.
LinesEnd ==
    /\ parser.pc = "lines"
    /\ parser.line_no > Len(parser.lines)
    /\ parser' = [ parser EXCEPT
                     !.pc = "process",
                     !.documents = IF strip(parser.current_doc) # << >>
                                   THEN Append(@, strip(parser.current_doc)) ELSE @ ]
    /\ UNCHANGED << engineVars, call >>

\* The loop over documents[:50] and the return.
ProcessStep ==
    /\ parser.pc = "process"
    /\ LET first == SubSeq(parser.documents, 1,
                           IF Len(parser.documents) > MaxDocs THEN MaxDocs
                           ELSE Len(parser.documents))
       IN  parser' = [ parser EXCEPT
                         !.pc = "done",
                         !.units = SelectSeq(first, LAMBDA u : u # << >> /\ WellFormed(u)),
                         !.patents = ProcessDocuments(first) ]
    /\ UNCHANGED << engineVars, call >>

\* A call of format_date.
FormatDate(date, year) ==
    /\ call.fn = "none"
    /\ call' = [ fn |-> "format_date", arg |-> [ date |-> date, year |-> year ],
                 ret |-> format_date(date, year) ]
    /\ UNCHANGED << engineVars, parser >>

\* A call of categorize_patent.
Categorize(ipc_class, title) ==
    /\ call.fn = "none"
    /\ call' = [ fn |-> "categorize_patent",
                 arg |-> [ ipc_class |-> ipc_class, title |-> title ],
                 ret |-> categorize_patent(ipc_class, title) ]
    /\ UNCHANGED << engineVars, parser >>

\* A call of extract_patent_data_robust on the root of a tree.
Extract(tree) ==
    /\ call.fn = "none"
    /\ \E generated \in GeneratedIds :
           call' = [ fn |-> "extract_patent_data_robust",
                     arg |-> tree,
                     ret |-> extract_patent_data_robust(tree, generated) ]
    /\ UNCHANGED << engineVars, parser >>

\* The same text is parsed a second time and its root is extracted again:
\* the tree is a new object, in this process or in another one, so the
\* identifier made from hash(str(patent_elem)) is any of the generated ones.
ExtractAgain ==
    /\ call.fn = "extract_patent_data_robust"
    /\ \E generated \in GeneratedIds :
           call' = [ fn |-> "extract_again",
                     arg |-> call.arg,
                     ret |-> << call.ret, extract_patent_data_robust(call.arg, generated) >> ]
    /\ UNCHANGED << engineVars, parser >>

\* A call of clean_text.
CleanText(text) ==
    /\ call.fn = "none"
    /\ call' = [ fn |-> "clean_text", arg |-> text, ret |-> clean_text(text) ]
    /\ UNCHANGED << engineVars, parser >>

\* The statements of index_patents run by worker w.
RebuildWith(w, lists) ==
    \/ \E b \in lists : BeginRebuild(w, b)
    \/ Delete(w)
    \/ CommitDelete(w)
    \/ Insert(w)
    \/ FinalCommit(w)
    \/ Stats(w)

RebuildStep(w) == RebuildWith(w, Inputs)

\* The statements that meet another connection's write lock.
BusyStep(w) ==
    \/ DeleteBusy(w)
    \/ InsertBusy(w)

AggregateStep ==
    \/ AggTopAssignees
    \/ AggCategories
    \/ AggIpcClasses
    \/ AggByYear
    \/ AggTotal

\* Two threads rebuild while a third calls get_aggregations.
Next ==
    \/ \E w \in Workers : RebuildStep(w)
    \/ \E w \in Workers : BusyStep(w)
    \/ AggregateStep

Spec == Init /\ [][Next]_vars

\* The rebuilding threads alone: the reads change none of rebuildVars.
NextRebuild ==
    \/ \E w \in Workers : RebuildStep(w)
    \/ \E w \in Workers : BusyStep(w)

SpecRebuild == Init /\ [][NextRebuild]_vars

\* One thread rebuilds, one after the other, while another calls search.
NextSearch ==
    \/ RebuildStep("w1")
    \/ \E req \in Requests : Search(req)

SpecSearch == Init /\ [][NextSearch]_vars

\* The lists that repeat an id, given to index_patents by one thread.
DupInputs ==
    { << "net3", "dup", "abs1" >>,
      << "dup", "net3", "opt" >>,
      << "abs1", "net3", "dup", "dup", "ai" >>,
      << "noid", "noid", "dup" >> }

NextDuplicates == RebuildWith("w1", DupInputs)

SpecDuplicates == Init /\ [][NextDuplicates]_vars

\* The lists given to index_patents where the reading calls are studied.
ReadInputs == { << >>, << "net3", "dup" >>, << "ai", "opt" >> }

\* One thread rebuilds while another serves field searches.
NextField ==
    \/ RebuildWith("w1", ReadInputs)
    \/ \E field \in FieldNames, value \in FieldValues, limit \in FieldLimits :
           FieldSearch(field, value, limit)

SpecField == Init /\ [][NextField]_vars

\* The reading calls of SpecReads: a search that returns, one that raises,
\* a field search that returns and one that raises.
ReadRequests ==
    { [ NoRequest EXCEPT !.query = w_network, !.limit = 10 ],
      [ NoRequest EXCEPT !.query = w_bangs, !.limit = 10 ] }

\* One thread rebuilds while another makes all three kinds of reading call.
NextReads ==
    \/ RebuildWith("w1", ReadInputs)
    \/ \E req \in ReadRequests : Search(req)
    \/ \E field \in { "assignee", "country" } : FieldSearch(field, w_google, 10)
    \/ AggregateStep

SpecReads == Init /\ [][NextReads]_vars

\* parse_uspto_xml on one file.
NextParse ==
    \/ \E docs \in DocLists : BeginParse(docs)
    \/ ParseWhole
    \/ RegexScan
    \/ LineStep
    \/ LinesEnd
    \/ ProcessStep

SpecParse == Init /\ [][NextParse]_vars

\* parse_uspto_xml on one file whose documents the line scan has to find.
NextLines ==
    \/ \E docs \in LineDocLists : BeginParse(docs)
    \/ ParseWhole
    \/ RegexScan
    \/ LineStep
    \/ LinesEnd
    \/ ProcessStep

SpecLines == Init /\ [][NextLines]_vars

\* The calls of format_date.
NextDate == \E date \in DateInputs, year \in Years : FormatDate(date, year)

SpecDate == Init /\ [][NextDate]_vars

\* The calls of categorize_patent.
NextCategorize == \E ipc_class \in IpcCodes, title \in Titles : Categorize(ipc_class, title)

SpecCategorize == Init /\ [][NextCategorize]_vars

\* The extraction of one record from one tree.
NextExtract ==
    \/ \E tree \in Trees : Extract(tree)
    \/ ExtractAgain

SpecExtract == Init /\ [][NextExtract]_vars

\* The texts of a record: extractions from trees with text elements, and
\* calls of clean_text.
NextText ==
    \/ \E tree \in TextTrees : Extract(tree)
    \/ \E text \in CleanInputs : CleanText(text)

SpecText == Init /\ [][NextText]_vars

(***************************************************************************)
(* Properties of the rebuild                                               *)
(***************************************************************************)
\* C1: while one rebuild runs (and no other), the total that a concurrent
\* get_aggregations reads is that of the complete previous generation or
\* that of the complete new one, never that of the emptied or of a partly
\* filled table.
C1_ReadSeesWholeGeneration ==
    [][ (aggpc = "total_patents" /\ aggpc' = "idle") =>
          \A w \in Workers :
              Active(w) /\ solo[w] =>
                  agg'.total_patents \in
                      { Cardinality(prevRows[w]),
                        Cardinality(RebuildAlone(batch[w])) } ]_vars

\* C2: once two rebuilds have both returned, the stored table holds exactly
\* the records of one of the two lists, never a mixture.
C2_NoMixture ==
    (\A w \in Workers : pc[w] = "done") =>
        \E w \in Workers : Rows(db) = RebuildAlone(batch[w])

\* C3: after a rebuild that ran alone has returned, every stored record is
\* one of its input, so no record of the previous generation remains unless
\* the input holds it too; after the rebuild of the empty list the total of
\* get_aggregations is 0.
C3_PreviousGenerationGone ==
    \A w \in Workers :
        pc[w] = "done" /\ solo[w] =>
            /\ \A p \in Rows(db) : p.key \in Range(batch[w])
            /\ \A p \in prevRows[w] \cap Rows(db) : p.key \in Range(batch[w])
            /\ batch[w] = << >> => TotalPatents(db) = 0

\* C3 happens: the rebuild of the empty list has returned on an index that
\* was not empty.
C3_Witness ==
    \E w \in Workers :
        /\ pc[w] = "done" /\ solo[w]
        /\ batch[w] = << >>
        /\ prevRows[w] # { }

\* C4: when no rebuild is under way, the records with documents in
\* patents_fts are exactly the records stored in patents.
C4_IndexInLockstep ==
    (\A w \in Workers : ~Active(w)) =>
        Range(db.fts) = { p.key : p \in Rows(db) }

\* C5: every stored record has a title of at least MinTitle characters and
\* an abstract of at least MinAbstract characters.
C5_StoredRecordsValid ==
    /\ \A p \in Rows(db) : ValidRecord(p.key)
    /\ \A p \in Rows(txn) : ValidRecord(p.key)

\* C6: no two rows of patents have the same id, committed or not, whatever
\* lists were given to index_patents.
C6_UniqueIds ==
    \A d \in { db, txn } :
        \A r1, r2 \in DOMAIN d.patents :
            r1 # r2 => d.patents[r1].id # d.patents[r2].id

\* C6 happens: a rebuild has returned whose list repeats an id, or holds
\* two records without id.
C6_Witness ==
    \E w \in Workers :
        /\ pc[w] = "done"
        /\ Rows(db) # { }
        /\ \E i, j \in DOMAIN batch[w] :
              /\ i < j
              /\ Rec(batch[w][i]).has_id = Rec(batch[w][j]).has_id
              /\ Rec(batch[w][i]).id = Rec(batch[w][j]).id

(***************************************************************************)
(* Properties of search                                                    *)
(***************************************************************************)
\* The largest number of occurrences of t in s of which no two overlap.
Occurrences(t, s) ==
    LET P == { i \in 1..Len(s) : MatchAt(s, i, t) }
        Apart(S) == \A i, j \in S : i # j => (i - j >= Len(t) \/ j - i >= Len(t))
    IN  CHOOSE n \in 0..Len(s) :
            /\ \E S \in SUBSET P : Apart(S) /\ Cardinality(S) = n
            /\ \A S \in SUBSET P : Apart(S) => Cardinality(S) <= n

\* The sum over the terms of the occurrences of the term in s.
RECURSIVE TermOccurrences(_, _)
TermOccurrences(terms, s) ==
    IF terms = << >> THEN 0
    ELSE Occurrences(Head(terms), s) + TermOccurrences(Tail(terms), s)

\* The weighted sum of the claim, in tenths: 3.0, 2.0, 1.5 and 1.0 times the
\* occurrences of the lower-cased terms in the lower-cased title, abstract,
\* claims and description.
WeightedSum(k, query) ==
    LET terms == Split(Lower(query))
    IN  30 * TermOccurrences(terms, Lower(Rec(k).title))
        + 20 * TermOccurrences(terms, Lower(Rec(k).abstract))
        + 15 * TermOccurrences(terms, Lower(Rec(k).claims))
        + 10 * TermOccurrences(terms, Lower(Rec(k).description))

Boosted(k) == Rec(k).category \in { w_artificial_intelligence, w_telecommunications }

\* C7: the score of every result is the weighted sum of the occurrences of
\* the query terms (times 1.2 for a boosted category); for the query
\* "network" the record with the term three times in its title scores 9.0,
\* the one with it once in its abstract 2.0, and the first comes first.
C7_ScoreIsWeightedSum ==
    out.status = "ok" =>
        /\ \A i \in DOMAIN out.results :
              LET r == out.results[i]
                  e == WeightedSum(r.key, out.req.query)
              IN  r.score = IF Boosted(r.key) THEN (e * 12) \div 10 ELSE e
        /\ Lower(out.req.query) = w_network =>
              \A i, j \in DOMAIN out.results :
                  /\ out.results[i].key = "net3" => out.results[i].score = 90
                  /\ out.results[i].key = "abs1" => out.results[i].score = 20
                  /\ out.results[i].key = "net3" /\ out.results[j].key = "abs1"
                         => i < j

\* C7 happens: a search for "network" returned both records.
C7_Witness ==
    /\ out.status = "ok"
    /\ out.req.query = w_network
    /\ \E i, j \in DOMAIN out.results :
          /\ out.results[i].key = "net3" /\ out.results[i].score = 90
          /\ out.results[j].key = "abs1" /\ out.results[j].score = 20

\* C8 as stated: of two results with equal scores before the boost, one of
\* a boosted category and one not, the boosted one comes first.
C8_BoostedFirstOnAnyTie ==
    out.status = "ok" =>
        \A i, j \in DOMAIN out.results :
            /\ Boosted(out.results[i].key)
            /\ ~Boosted(out.results[j].key)
            /\ WeightedSum(out.results[i].key, out.req.query)
                   = WeightedSum(out.results[j].key, out.req.query)
            => i < j

\* C8, amended: of two results with equal and positive scores before the
\* boost, one of a boosted category and one not, the boosted one comes
\* first.
C8_BoostedFirstOnPositiveTie ==
    out.status = "ok" =>
        \A i, j \in DOMAIN out.results :
            /\ Boosted(out.results[i].key)
            /\ ~Boosted(out.results[j].key)
            /\ WeightedSum(out.results[i].key, out.req.query)
                   = WeightedSum(out.results[j].key, out.req.query)
            /\ WeightedSum(out.results[i].key, out.req.query) > 0
            => i < j

\* C8 happens: a search returned a boosted and an unboosted record with the
\* same positive score before the boost.
C8_Witness ==
    /\ out.status = "ok"
    /\ \E i, j \in DOMAIN out.results :
          /\ Boosted(out.results[i].key)
          /\ ~Boosted(out.results[j].key)
          /\ WeightedSum(out.results[i].key, out.req.query) > 0
          /\ WeightedSum(out.results[i].key, out.req.query)
                 = WeightedSum(out.results[j].key, out.req.query)

\* The place of the row with this id in the rows the query returned.
FetchedAt(id) == CHOOSE n \in DOMAIN out.fetched : out.fetched[n].id = id

\* C9: the list returned holds the rows the query returned, in falling
\* order of score, those of equal score in the order the query returned
\* them.
C9_SortedStable ==
    out.status = "ok" =>
        /\ Len(out.results) = Len(out.fetched)
        /\ { out.results[i].id : i \in DOMAIN out.results }
               = { out.fetched[i].id : i \in DOMAIN out.fetched }
        /\ \A i, j \in DOMAIN out.results :
              i < j =>
                  /\ out.results[i].score >= out.results[j].score
                  /\ out.results[i].score = out.results[j].score =>
                         FetchedAt(out.results[i].id)
                             < FetchedAt(out.results[j].id)

\* C9 happens: a search returned results of equal score and, after them, a
\* result that the query had returned before one of them.
C9_Witness ==
    /\ out.status = "ok"
    /\ \E i, j \in DOMAIN out.results :
          i < j /\ out.results[i].score = out.results[j].score
    /\ \E i, j \in DOMAIN out.results :
          /\ i < j
          /\ FetchedAt(out.results[i].id) > FetchedAt(out.results[j].id)

\* C10: every result satisfies each filter that was supplied: its category
\* is the category given, its assignee contains the assignee given, its
\* publication date lies between the two dates given, both included.
C10_ResultsPassFilters ==
    out.status = "ok" =>
        \A i \in DOMAIN out.results :
            LET rec == Rec(out.results[i].key)
                req == out.req
            IN  /\ req.category # << >> => rec.category = req.category
                /\ req.assignee # << >> => Occurrences(req.assignee, rec.assignee) > 0
                /\ req.date_range # << >> =>
                       /\ LexLeq(req.date_range[1], rec.publication_date)
                       /\ LexLeq(rec.publication_date, req.date_range[2])

C12_ReadsArePure ==
    [][ out' # out \/ fld' # fld \/ agg' # agg \/ aggpc' # aggpc
          => db' = db /\ txn' = txn /\ writer' = writer ]_vars

\* C12 happens: a search has raised while the rebuilding thread holds
\* uncommitted rows.
C12_Witness ==
    /\ out.status = "error"
    /\ writer = "w1"
    /\ txn.patents # << >>
    /\ agg.total_patents >= 0
    /\ fld.status # "none"

(***************************************************************************)
(* Properties of the splitter                                              *)
(***************************************************************************)
\* The units (trimmed documents) that parse, and the records of a list of
\* units: of each unit that parses, the record of its content unless its
\* title is too short.
ValidUnits == { strip(d) : d \in ValidDocs }

RECURSIVE RecordsOfUnits(_)
RecordsOfUnits(units) ==
    IF units = << >> THEN << >>
    ELSE (LET r == { t \in Range(Head(units)) : t \in { "r1", "r2", "r3" } }
          IN  IF Head(units) \in ValidUnits /\ r # { }
              THEN << CHOOSE t \in r : TRUE >> ELSE << >>)
         \o RecordsOfUnits(Tail(units))

\* C13: a file made of N >= 2 valid documents, each beginning with the
\* declaration, is split into exactly N units, the trimmed documents in
\* the order of the file.
C13_SplitsIntoN ==
    (/\ parser.pc = "done"
     /\ Len(parser.docs) >= 2
     /\ \A i \in DOMAIN parser.docs : parser.docs[i] \in ValidDocs)
    => parser.documents = [ i \in DOMAIN parser.docs |-> strip(parser.docs[i]) ]

\* C14: a file that is one well-formed document is parsed as a whole: one
\* unit, the input up to the blanks around it, and neither the pattern
\* scan nor the line scan is run.
C14_SingleDocumentOneUnit ==
    (/\ parser.pc = "done"
     /\ Len(parser.docs) = 1
     /\ parser.docs[1] \in ValidDocs)
    => /\ parser.ran = << "whole" >>
       /\ Len(parser.units) = 1
       /\ strip(parser.units[1]) = strip(parser.content)
       /\ parser.documents = << >>

\* C14 happens: the parse of a file of one valid document has returned.
C14_Witness ==
    /\ parser.pc = "done"
    /\ Len(parser.docs) = 1
    /\ parser.docs[1] \in ValidDocs
    /\ parser.patents # << >>

\* C15: when a unit of a file of several documents does not parse, the
\* result holds the records of all the other units that parse and
\* validate, in the order of the file.
C15_FailedUnitSkipped ==
    (/\ parser.pc = "done"
     /\ Len(parser.documents) >= 2
     /\ \E i \in DOMAIN parser.documents : parser.documents[i] \notin ValidUnits)
    => parser.patents = RecordsOfUnits(parser.documents)

(***************************************************************************)
(* Properties of the date normalizer                                       *)
(***************************************************************************)
\* The value of a text of two digits.
TwoDigits(t) ==
    10 * ((CHOOSE i \in DOMAIN Digits : Digits[i] = t[1]) - 1)
    + (CHOOSE i \in DOMAIN Digits : Digits[i] = t[2]) - 1

\* C16: with D the number of digits of the text, D >= 8 gives
\* YYYY-MM-DD from the first eight digits, 6 <= D < 8 gives YYYY-MM-01,
\* 4 <= D < 6 gives YYYY-01-01 and D < 4 gives <year>-01-01: "20230615"
\* gives "2023-06-15", "202306" "2023-06-01", "2023" "2023-01-01" and
\* "garbage" "<year>-01-01".
C16_DateByDigitCount ==
    call.fn = "format_date" /\ call.arg.date.present =>
        LET text == call.arg.date.text
            dg   == { i \in DOMAIN text : text[i] \in { "0", "1", "2", "3", "4", "5", "6", "7", "8", "9" } }
            D    == Cardinality(dg)
            nth(n) == text[CHOOSE i \in dg : Cardinality({ j \in dg : j <= i }) = n]
            yyyy == << nth(1), nth(2), nth(3), nth(4) >>
            this == Decimal(call.arg.year)
        IN  /\ D >= 8 => call.ret = yyyy \o << "-", nth(5), nth(6), "-", nth(7), nth(8) >>
            /\ D >= 6 /\ D < 8 => call.ret = yyyy \o << "-", nth(5), nth(6), "-", "0", "1" >>
            /\ D >= 4 /\ D < 6 => call.ret = yyyy \o << "-", "0", "1", "-", "0", "1" >>
            /\ D < 4 => call.ret = this \o << "-", "0", "1", "-", "0", "1" >>
            /\ text = << "2", "0", "2", "3", "0", "6", "1", "5" >> =>
                   call.ret = << "2", "0", "2", "3", "-", "0", "6", "-", "1", "5" >>
            /\ text = << "2", "0", "2", "3", "0", "6" >> =>
                   call.ret = << "2", "0", "2", "3", "-", "0", "6", "-", "0", "1" >>
            /\ text = << "2", "0", "2", "3" >> =>
                   call.ret = << "2", "0", "2", "3", "-", "0", "1", "-", "0", "1" >>
            /\ text = w_garbage => call.ret = this \o << "-", "0", "1", "-", "0", "1" >>

\* C16 happens: format_date has returned for a text of eight digits and
\* more.
C16_Witness ==
    /\ call.fn = "format_date"
    /\ call.arg.date.present
    /\ Len(OnlyDigits(call.arg.date.text)) = 8
    /\ Len(call.arg.date.text) > 8

\* C17: format_date returns a text of the shape YYYY-MM-DD whose month is
\* 01 to 12 and whose day is 01 to 31, for every input, absent or not.
C17_AlwaysCalendarDate ==
    call.fn = "format_date" =>
        /\ Len(call.ret) = 10
        /\ \A i \in { 1, 2, 3, 4, 6, 7, 9, 10 } : call.ret[i] \in Range(Digits)
        /\ call.ret[5] = "-" /\ call.ret[8] = "-"
        /\ TwoDigits(SubSeq(call.ret, 6, 7)) \in 1..12
        /\ TwoDigits(SubSeq(call.ret, 9, 10)) \in 1..31

(***************************************************************************)
(* Properties of the categorizer                                           *)
(***************************************************************************)
\* C18: the category returned is the first, in the order
\* artificial_intelligence, telecommunications, biotechnology,
\* semiconductors, automotive, energy, that has a trigger in the
\* lower-cased title (the trigger lower-cased too) or in the class; if
\* there is none it is the broad category of the first letter of the
\* class, or other.  A title with "neural network" and the class G06F1234
\* give artificial_intelligence.
C18_FirstMatchWins ==
    call.fn = "categorize_patent" =>
        LET title == Lower(call.arg.title)
            code  == IF call.arg.ipc_class = << >> THEN << "G", "0", "6", "F" >>
                     ELSE call.arg.ipc_class
            order == << "artificial_intelligence", "telecommunications", "biotechnology",
                        "semiconductors", "automotive", "energy" >>
            triggers(c) ==
                LET n == CHOOSE n \in DOMAIN specific_patterns :
                             specific_patterns[n].category = c
                IN  Range(specific_patterns[n].patterns)
            hit(c) == \E t \in triggers(c) :
                          Occurrences(Lower(t), title) > 0 \/ Occurrences(t, code) > 0
            hits == { n \in DOMAIN order : hit(order[n]) }
            broad == << "human_necessities", "performing_operations", "chemistry_metallurgy",
                        "textiles_paper", "fixed_constructions", "mechanical_engineering",
                        "physics", "electricity" >>
            letter == { n \in 1..8 : code[1] \in { UpperCase[n], LowerCase[n] } }
        IN  /\ hits # { } => \E n \in hits : /\ call.ret = order[n]
                                               /\ \A m \in hits : n <= m
            /\ hits = { } /\ letter # { } => \E n \in letter : call.ret = broad[n]
            /\ hits = { } /\ letter = { } => call.ret = "other"
            /\ Occurrences(<< "n", "e", "u", "r", "a", "l", " ", "n", "e", "t", "w", "o", "r", "k" >>, title) > 0
               /\ code = << "G", "0", "6", "F", "1", "2", "3", "4" >> => call.ret = "artificial_intelligence"

\* C18 happens: categorize_patent has returned for a title with "neural
\* network", which holds a trigger of telecommunications too, and the
\* class G06F1234.
C18_Witness ==
    /\ call.fn = "categorize_patent"
    /\ call.arg.title = << "N", "e", "u", "r", "a", "l", " ", "N", "e", "t", "w", "o", "r", "k", " ", "e", "n", "g", "i", "n", "e" >>
    /\ call.arg.ipc_class = << "G", "0", "6", "F", "1", "2", "3", "4" >>
    /\ call.ret = "artificial_intelligence"

(***************************************************************************)
(* Properties of the extraction                                            *)
(***************************************************************************)
\* The texts of the elements of tree that have tag above them and end in
\* last, in document order, stripped.
TextsUnder(tree, tag, last) ==
    LET es == SelectSeq(tree, LAMBDA e :
                  /\ e.tags[Len(e.tags)] = last
                  /\ \E k \in 1..(Len(e.tags) - 1) : e.tags[k] = tag)
    IN  [ i \in DOMAIN es |-> str_strip(es[i].text) ]

\* C19: the ipc_class of the extracted record is never empty, and it is
\* G06F when no classification element holds anything but whitespace.
C19_IpcClassNeverEmpty ==
    call.fn = "extract_patent_data_robust" =>
        LET classes == { "classifications-ipc", "classification-ipc", "ipc-classification",
                         "classification-us", "us-classification", "classification-national" }
            codes == SelectSeq(call.arg, LAMBDA e :
                         /\ \E k \in DOMAIN e.tags : e.tags[k] \in classes
                         /\ e.tags[Len(e.tags)] # "edition"
                         /\ str_strip(e.text) # << >>)
        IN  /\ call.ret.ipc_class # << >>
            /\ codes = << >> => call.ret.ipc_class = c_G06F

\* C20: when the document has a publication reference with a doc-number
\* that is not empty, the id of the record is that number, whichever
\* document-id elements stand before it.
C20_PublicationNumberFirst ==
    call.fn = "extract_patent_data_robust" =>
        LET numbers == SelectSeq(TextsUnder(call.arg, "publication-reference", "doc-number"),
                                 LAMBDA t : t # << >>)
        IN  numbers # << >> => call.ret.id = numbers[1]

\* C21: for a document without an identifier element, two extractions of
\* the same text give the same id.
C21_FallbackIdDeterministic ==
    call.fn = "extract_again" =>
        LET numbers == { "doc-number", "patent-number", "application-number" }
            ids == SelectSeq(call.arg, LAMBDA e : e.tags[Len(e.tags)] \in numbers)
        IN  ids = << >> => call.ret[1].id = call.ret[2].id

(***************************************************************************)
(* Properties of the limit of search                                       *)
(***************************************************************************)
\* C22: a search with a limit of at least 1 fetches at most `limit` rows,
\* each a different record, and returns exactly those rows re-ranked: never
\* more than `limit` entries, and no record that the scan did not fetch,
\* whatever its score.
C22_AtMostLimitCandidates ==
    out.status = "ok" /\ out.req.limit >= 1 =>
        /\ Len(out.fetched) <= out.req.limit
        /\ Len(out.results) <= out.req.limit
        /\ \A i, j \in DOMAIN out.fetched :
               i # j => out.fetched[i].id # out.fetched[j].id
        /\ \A i \in DOMAIN out.results :
               \E j \in DOMAIN out.fetched :
                   /\ out.fetched[j].id = out.results[i].id
                   /\ out.fetched[j].key = out.results[i].key
        /\ \A i, j \in DOMAIN out.results :
               i # j => out.results[i].id # out.results[j].id

\* C22 happens: a search returned `limit` records while the table holds
\* another matching record whose score is above that of every record
\* returned.
C22_Witness ==
    /\ out.status = "ok"
    /\ out.req.limit >= 1
    /\ Len(out.results) = out.req.limit
    /\ \E p \in Rows(db) :
          /\ p.key \in FtsHits[out.req.query]
          /\ PassesFilters(p, out.req)
          /\ \A i \in DOMAIN out.results :
                 /\ out.results[i].id # p.id
                 /\ Scores[out.req.query][p.key] > out.results[i].score

(***************************************************************************)
(* Properties of the line scan and of the choice between the scans         *)
(***************************************************************************)
\* C23: when the line scan has read a file made of documents that begin
\* with a declaration line and whose root is opened and closed, on one line
\* or on several, with or without lines between the documents, its units
\* are the documents, each from its declaration to its closing tag, in the
\* order of the file.
C23_UnitEndsAtClosingTag ==
    (/\ parser.pc \in { "process", "done" }
     /\ "lines" \in Range(parser.ran)
     /\ \A i \in DOMAIN parser.docs : parser.docs[i] \in ClosedDocs \cup { DocJunk })
    => LET closed == SelectSeq(parser.docs, LAMBDA d : d \in ClosedDocs)
       IN  parser.documents = [ i \in DOMAIN closed |-> strip(closed[i]) ]

\* The span of c from piece i to piece m is a match of the pattern: the
\* declaration, the document type and the open tag of the application with
\* nothing but blanks between them, up to the first close tag after them.
IsMatch(c, i, m) ==
    \E j, k \in i..m :
        /\ i < j /\ j < k /\ k < m
        /\ c[i] = "decl" /\ c[j] = "doctype" /\ c[k] = "oa" /\ c[m] = "ca"
        /\ \A n \in (i + 1)..(k - 1) : n # j => IsBlank(c[n])
        /\ \A n \in (k + 1)..(m - 1) : c[n] # "ca"

\* A line of c begins, after blanks, with the declaration.
HasDeclarationLine(c) ==
    \E i \in DOMAIN c :
        /\ c[i] = "decl"
        /\ \E b \in 1..i : /\ b = 1 \/ c[b - 1] = "nl"
                           /\ \A n \in b..(i - 1) : c[n] = "sp"

\* C24: when the whole file does not parse, the line scan is run if and
\* only if the pattern has no match in the file; when the pattern has a
\* match every unit is a match of the pattern, in the order of the file;
\* and when the pattern has no match and no line begins with the
\* declaration there is no unit and no record.
C24_LineScanOnlyWithoutMatch ==
    (/\ parser.pc \in { "process", "done" }
     /\ "regex" \in Range(parser.ran))
    => LET c == parser.content
           matched == \E i, m \in DOMAIN c : IsMatch(c, i, m)
           starts(u) == { i \in DOMAIN c :
                            /\ i + Len(u) - 1 <= Len(c)
                            /\ SubSeq(c, i, i + Len(u) - 1) = u
                            /\ IsMatch(c, i, i + Len(u) - 1) }
       IN  /\ "lines" \in Range(parser.ran) <=> ~matched
           /\ matched =>
                 /\ parser.documents # << >>
                 /\ \A n \in DOMAIN parser.documents : starts(parser.documents[n]) # { }
                 /\ \A n \in 1..(Len(parser.documents) - 1) :
                        \E a \in starts(parser.documents[n]),
                           b \in starts(parser.documents[n + 1]) :
                            a + Len(parser.documents[n]) <= b
           /\ ~matched /\ ~HasDeclarationLine(c) =>
                 /\ parser.documents = << >>
                 /\ parser.pc = "done" => parser.units = << >> /\ parser.patents = << >>

\* C24 happens: the parse of a file of two documents has returned after the
\* pattern and the line scan both found nothing.
C24_Witness ==
    /\ parser.pc = "done"
    /\ parser.ran = << "whole", "regex", "lines" >>
    /\ Len(parser.docs) >= 2
    /\ \E i \in DOMAIN parser.docs : parser.docs[i] = DocBare("r3")
    /\ parser.documents = << >>
    /\ parser.patents = << >>

\* The lines a to b of the input, each with its newline.
RECURSIVE JoinLines(_, _, _)
JoinLines(lines, a, b) ==
    IF a > b THEN << >> ELSE lines[a] \o << "nl" >> \o JoinLines(lines, a + 1, b)

\* The units from unit u on are made of lines from..n of the input: each
\* is a run of lines that begins with a line whose first piece after
\* blanks is the declaration, and the runs follow one another without a
\* line in common.
RECURSIVE MadeOfLines(_, _, _, _, _)
MadeOfLines(units, u, lines, from, n) ==
    \/ u > Len(units)
    \/ \E a \in from..n :
          /\ strip(lines[a]) # << >>
          /\ strip(lines[a])[1] = "decl"
          /\ \E b \in a..n :
                /\ strip(JoinLines(lines, a, b)) = units[u]
                /\ MadeOfLines(units, u + 1, lines, b + 1, n)

\* C30: after any number of lines of the line scan, the units emitted are
\* runs of the lines read so far, in the order of the input and without a
\* line in common, and each begins with a declaration line; so a line
\* before the first declaration line, or between the end of a unit and the
\* next declaration line, is in no unit.
C30_UnitsAreRunsOfLines ==
    "lines" \in Range(parser.ran) =>
        /\ MadeOfLines(parser.documents, 1, parser.lines, 1, parser.line_no - 1)
        /\ \A u \in DOMAIN parser.documents : parser.documents[u][1] = "decl"

\* C30 happens: the line scan has closed a first unit, passed over a line
\* that belongs to no document and emitted a second unit.
C30_Witness ==
    /\ "lines" \in Range(parser.ran)
    /\ parser.docs = << DocPlain("r1"), DocJunk, DocPlain("r1") >>
    /\ parser.documents = << strip(DocPlain("r1")), strip(DocPlain("r1")) >>

(***************************************************************************)
(* Properties of the texts of a record                                     *)
(***************************************************************************)
\* The text that the candidates tags give for tree: the text of the first
\* element, in document order, with the first of the tags that some element
\* has, stripped; dflt when no element has any of them.  (The texts of the
\* trees are left as they are by the cleaner.)
TextOf(tree, tags, dflt) ==
    LET has == { n \in DOMAIN tags :
                   \E i \in DOMAIN tree : tree[i].tags[Len(tree[i].tags)] = tags[n] }
        tag == tags[CHOOSE n \in has : \A m \in has : n <= m]
        at  == { i \in DOMAIN tree : tree[i].tags[Len(tree[i].tags)] = tag }
    IN  IF has = { } THEN dflt
        ELSE str_strip(tree[CHOOSE i \in at : \A j \in at : i <= j].text)

\* C25: title, abstract, claims and description are each taken from the
\* first candidate, in the order of the list, that has an element in the
\* tree, even when that element is empty; a later candidate is not looked
\* at, so a tree whose first existing title (abstract) element has fewer
\* than 5 (10) characters gives no record, whatever a later candidate holds.
C25_FirstExistingCandidate ==
    call.fn = "extract_patent_data_robust" =>
        LET title == TextOf(call.arg, << "invention-title", "title-of-invention",
                                         "invention-title-text", "title" >>, << "U", "n", "t", "i", "t", "l", "e", "d" >>)
            abstract == TextOf(call.arg, << "abstract", "abstract-text", "subdoc-abstract" >>,
                               << "N", "o", " ", "a", "b", "s", "t", "r", "a", "c", "t", " ", "a", "v", "a", "i", "l", "a", "b", "l", "e" >>)
            claims == TextOf(call.arg, << "claims", "claim", "subdoc-claims" >>, << "N", "o", " ", "c", "l", "a", "i", "m", "s", " ", "a", "v", "a", "i", "l", "a", "b", "l", "e" >>)
            description == TextOf(call.arg, << "description", "detailed-description",
                                               "subdoc-description" >>, << >>)
        IN  IF Len(title) < 5 \/ Len(abstract) < 10 THEN call.ret = None
            ELSE /\ call.ret # None
                 /\ call.ret.title = title
                 /\ call.ret.abstract = abstract
                 /\ call.ret.claims = claims
                 /\ call.ret.description = description

\* C25 happens: the extraction returned None for a tree with an empty
\* invention-title element and a title element that holds a long title.
C25_Witness ==
    /\ call.fn = "extract_patent_data_robust"
    /\ \E i, j \in DOMAIN call.arg :
          /\ call.arg[i] = Leaf(<< "invention-title" >>, << >>)
          /\ call.arg[j].tags = << "title" >>
          /\ Len(str_strip(call.arg[j].text)) >= 5
    /\ \A i \in DOMAIN call.arg : call.arg[i].tags[1] \notin { "abstract", "abstract-text" }
    /\ call.ret = None

\* C26: the text that clean_text returns has no two whitespace characters
\* in a row, has only word characters, whitespace and - . , ; : ( ) [ ],
\* and has at most 5000 characters.
C26_CleanOutput ==
    call.fn = "clean_text" =>
        /\ \A i \in 1..(Len(call.ret) - 1) :
               ~(call.ret[i] \in { " ", "\t", "\n" } /\ call.ret[i + 1] \in { " ", "\t", "\n" })
        /\ \A i \in DOMAIN call.ret :
               \/ call.ret[i] \in Range(LowerCase) \cup Range(UpperCase) \cup Range(Digits)
               \/ call.ret[i] \in { "_", " ", "\t", "\n", "-", ".", ",", ";", ":",
                                    "(", ")", "[", "]" }
        /\ Len(call.ret) <= 5000

(***************************************************************************)
(* Properties of a rebuild whose list repeats an id                        *)
(***************************************************************************)
\* The places of the list b whose id no earlier place has.
FirstOfId(b) ==
    { i \in DOMAIN b :
        \A j \in 1..(i - 1) : ResolveId(b[j], j - 1) # ResolveId(b[i], i - 1) }

\* C27: after a rebuild that ran alone has returned, the table holds, of
\* the records of the list with one id, the first in the order of the
\* list, and so every record whose id no other record has; the later
\* records with that id are not stored.
C27_FirstOfDuplicatesStored ==
    \A w \in Workers :
        pc[w] = "done" /\ solo[w] =>
            Rows(db) = { PatentRow(batch[w][i], i - 1) : i \in FirstOfId(batch[w]) }

\* C27 happens: a rebuild has returned whose list holds a record, then two
\* records with one id, then another record.
C27_Witness ==
    \E w \in Workers :
        /\ pc[w] = "done" /\ solo[w]
        /\ \E i, j \in DOMAIN batch[w] :
              /\ 1 < i /\ i < j /\ j < Len(batch[w])
              /\ ResolveId(batch[w][i], i - 1) = ResolveId(batch[w][j], j - 1)
              /\ batch[w][i] # batch[w][j]
        /\ Cardinality(Rows(db)) = 3

\* C28: after a load that ran alone has returned with success, the number
\* it reports as indexed is the number of records in the table.
C28_IndexedIsStored ==
    \A w \in Workers :
        pc[w] = "done" /\ solo[w] =>
            load_data_sqlite(batch[w]).indexed = TotalPatents(db)

(***************************************************************************)
(* Properties of the terms of a query                                      *)
(***************************************************************************)
\* A word of text begins with term, letters compared without case.
WordStartsWith(text, term) ==
    \E i \in DOMAIN text :
        /\ MatchAt(Lower(text), i, Lower(term))
        /\ i = 1 \/ ~IsWordChar(text[i - 1])

\* C29: every record returned whose title, abstract, claims or description
\* has a word that begins with one of the terms of the query, taken
\* without its punctuation as they are for the retrieval, has a score above
\* zero.
C29_RetrievedMeansScored ==
    out.status = "ok" =>
        LET q == out.req.query
            terms == Split([ i \in DOMAIN q |->
                               IF IsWordChar(q[i]) \/ IsSpace(q[i]) THEN q[i] ELSE " " ])
        IN  \A i \in DOMAIN out.results :
                (\E t \in DOMAIN terms, c \in { "title", "abstract", "claims", "description" } :
                     WordStartsWith(Rec(out.results[i].key)[c], terms[t]))
                => out.results[i].score > 0

====
